---- MODULE Spec2Model ----
(***************************************************************************)
(* The metrics collector manager of the Hawkular OpenShift Agent           *)
(* (collector/manager/metrics_collector_manager.go): the Tickers table and *)
(* its lock, the goroutines that call StartCollecting, StopCollecting and  *)
(* StopCollectingAll, the tickers, the per-ticker worker goroutines with   *)
(* their scrape cycles, the two sink channels and the status registry.     *)
(***************************************************************************)
EXTENDS Integers, Sequences, FiniteSets, TLC

\* ------------------------------------------------------------------ bounds

\* tickers (and therefore worker goroutines) created in one run
MaxTickers == 2
\* ticks the workers consume in one run, all workers together
MaxCycles == 2
\* capacity of each of the two sink channels
ChanCap == 1
\* manager calls made in one run
MaxCalls == 3

\* ------------------------------------------------------------ input domains

\* endpoint ids (collector.GetId())
Ids == {"a", "b"}
\* goroutines that call the manager (the static start-up and the pod watcher)
Callers == {"c1", "c2"}
TickerIds == 1 .. MaxTickers
NoTicker == 0
NoCaller == "free"

\* time.Minute * 5, in seconds
FiveMinutes == 300

\* duration strings of the configuration and of the endpoints
DurationStrings == {"", "bogus", "-5s", "0s", "1s", "30s", "2m", "5m"}

\* time.ParseDuration, in whole seconds: the empty string and a string with no
\* number and unit are errors; zero and negative durations parse
ParseDuration(s) ==
    CASE s = "-5s" -> [ok |-> TRUE, d |-> 0 - 5]
      [] s = "0s"  -> [ok |-> TRUE, d |-> 0]
      [] s = "1s"  -> [ok |-> TRUE, d |-> 1]
      [] s = "30s" -> [ok |-> TRUE, d |-> 30]
      [] s = "2m"  -> [ok |-> TRUE, d |-> 120]
      [] s = "5m"  -> [ok |-> TRUE, d |-> 300]
      [] OTHER     -> [ok |-> FALSE, d |-> 0]

\* mcm.Config.Collector: Default_Collection_Interval, Minimum_Collection_Interval
Configs == [default : DurationStrings, minimum : DurationStrings]
\* the configuration the concurrency specifications run under
RunConfig == [default |-> "5m", minimum |-> "30s"]

\* a collector as StartCollecting reads it: GetId(), GetEndpoint().IsEnabled(),
\* GetEndpoint().Collection_Interval
AllCollectors == [id : Ids, enabled : BOOLEAN, interval : DurationStrings]
\* the collectors the concurrency specifications start
RunCollectors == [id : Ids, enabled : BOOLEAN, interval : {"1s"}]
NoCollector == [id |-> "", enabled |-> FALSE, interval |-> ""]

\* final metric ids one endpoint can emit: foo is plain, bar splits by label k
FinalIds == {"foo", "bar_a", "bar_b"}
\* what one successful CollectMetrics call leads to after the identity
\* expansion: one batch per split metric and the batch of the plain metrics
ScrapeResults ==
    { [splits |-> << >>, plain |-> {"foo"}],
      [splits |-> << {"bar_a", "bar_b"} >>, plain |-> {"foo"}] }

\* the metric name a final id was made from (monitoredMetric.Name)
NameOf(id) == IF id = "foo" THEN "foo" ELSE "bar"

\* hmetrics.Gauge
Gauge == "gauge"

\* the monitored metrics of an endpoint as createMetricDefinition reads them:
\* foo declares a type and no description, bar a description and no type
MonitoredMetrics ==
    [foo |-> [Name |-> "foo", Type |-> "counter", Description |-> ""],
     bar |-> [Name |-> "bar", Type |-> "", Description |-> "bar by config"]]

\* what CollectMetricDetails returns when it succeeds
AdapterDetails ==
    { [Name |-> "foo", MetricType |-> Gauge, Description |-> "foo by adapter"],
      [Name |-> "bar", MetricType |-> "counter", Description |-> "bar by adapter"] }

\* var metricDetail collector.MetricDetails: the zero value
NoDetails == [Name |-> "", MetricType |-> "", Description |-> ""]

\* createMetricDefinition: the details of the metric with this name, the zero
\* value when the list has none
FindDetails(name, details) ==
    IF \E m \in details : m.Name = name
    THEN CHOOSE m \in details : m.Name = name
    ELSE NoDetails

\* MetricType preferring the type of the details to the declared one
MetricType_DetailsFirst(mm, detail) ==
    IF detail.MetricType # "" THEN detail.MetricType
    ELSE IF mm.Type # "" THEN mm.Type
    ELSE Gauge

\* createMetricDefinition: the declared type, else the type of the details,
\* else gauge
MetricType(mm, detail) ==
    IF mm.Type # "" THEN mm.Type
    ELSE IF detail.MetricType # "" THEN detail.MetricType
    ELSE Gauge

\* createMetricDefinition: the declared description, else the one of the details
MetricDescription(mm, detail) ==
    IF mm.Description # "" THEN mm.Description ELSE detail.Description

\* ------------------------------------------------------------------- state

VARIABLES
    cfg,            \* mcm.Config.Collector
    Tickers,        \* mcm.Tickers: id -> ticker (NoTicker: no entry)
    TickersLock,    \* mcm.TickersLock: the caller that holds it, or NoCaller
    call,           \* per calling goroutine: the manager call in progress
    ticker,         \* the time.Ticker objects
    wk,             \* per ticker: the goroutine started with it
    metricsChan,    \* mcm.metricsChan
    metricDefsChan, \* mcm.metricDefsChan
    endpoints,      \* status.StatusReport endpoints: id -> message ("": none)
    crashed,        \* an unrecovered panic ended the process
    DataPointsCollected, \* agentmetrics.Metrics.DataPointsCollected
    fn,             \* one application of a function of the cycle to one input
    calls,          \* manager calls made so far
    dataSent,       \* history: per worker, batches sent on metricsChan
    dataIds,        \* history: per worker, the ids of the series sent on metricsChan
    defsSent,       \* history: per worker, batches sent on metricDefsChan
    scrapedOk       \* history: per worker, CollectMetrics has succeeded

vars == << cfg, fn, Tickers, TickersLock, call, ticker, wk, metricsChan,
           metricDefsChan, endpoints, crashed, DataPointsCollected, calls,
           dataSent, dataIds, defsSent, scrapedOk >>

mgrVars == << Tickers, TickersLock, call, calls >>
sinkVars == << metricsChan, metricDefsChan >>
histVars == << dataSent, dataIds, defsSent, scrapedOk >>

IdleCall == [pc |-> "idle", op |-> "none", col |-> NoCollector, found |-> {}]
NewTickerObj == [created |-> FALSE, stopped |-> FALSE, pending |-> FALSE,
                 id |-> "", interval |-> 0]
\* total is totalNumberOfMetricsCollected of the cycle in progress
NewWorker == [pc |-> "none", col |-> NoCollector, declared |-> {}, needed |-> {}, tosend |-> << >>,
              detailsErr |-> FALSE, cycles |-> 0, total |-> 0]

\* NewMetricsCollectorManager: an empty table, a free lock, no goroutine
InitState ==
    /\ Tickers = [i \in Ids |-> NoTicker]
    /\ TickersLock = NoCaller
    /\ call = [t \in Callers |-> IdleCall]
    /\ ticker = [k \in TickerIds |-> NewTickerObj]
    /\ wk = [k \in TickerIds |-> NewWorker]
    /\ metricsChan = << >>
    /\ metricDefsChan = << >>
    /\ endpoints = [i \in Ids |-> ""]
    /\ crashed = FALSE
    /\ DataPointsCollected = 0
    /\ calls = 0
    /\ dataSent = [k \in TickerIds |-> 0]
    /\ dataIds = [k \in TickerIds |-> {}]
    /\ defsSent = [k \in TickerIds |-> << >>]
    /\ scrapedOk = [k \in TickerIds |-> FALSE]

\* no function application is looked at
NoFn == [phase |-> "none"]

Init == cfg = RunConfig /\ fn = NoFn /\ InitState

\* ---------------------------------------------------------- status registry

\* status.StatusReport.SetEndpoint: an empty message removes the entry
SetEndpoint(reg, id, msg) == [reg EXCEPT ![id] = msg]

\* status.StatusReport.DeleteAllEndpoints
DeleteAllEndpoints(reg) == [i \in DOMAIN reg |-> ""]

\* ------------------------------------------------------ collection interval

\* ChosenInterval going to five minutes when the endpoint's interval is invalid
ChosenInterval_NoDefault(c, conf) ==
    LET s == IF c.interval = "" THEN conf.default ELSE c.interval
    IN  IF ParseDuration(s).ok THEN ParseDuration(s).d ELSE FiveMinutes

\* StartCollecting, "determine the collection interval": the endpoint's
\* interval, else the default, else five minutes
ChosenInterval(c, conf) ==
    LET s == IF c.interval = "" THEN conf.default ELSE c.interval
    IN  IF ParseDuration(s).ok THEN ParseDuration(s).d
        ELSE IF ParseDuration(conf.default).ok THEN ParseDuration(conf.default).d
        ELSE FiveMinutes

\* EffectiveInterval without the clamp to the minimum
EffectiveInterval_NoClamp(c, conf) == ChosenInterval(c, conf)

\* the clamp to the configured minimum, skipped when the minimum is invalid
EffectiveInterval(c, conf) ==
    LET d == ChosenInterval(c, conf)
        m == ParseDuration(conf.minimum)
    IN  IF m.ok /\ d < m.d THEN m.d ELSE d

\* ------------------------------------------------------- the manager calls

\* StopTickers with the call of ticker.Stop() left out
StopTickers_NotStopped(tk, S) == tk

\* ticker.Stop() on every ticker of S: no further tick is sent; the channel
\* ticker.C is not closed and keeps a tick that is already in it
StopTickers(tk, S) ==
    [k \in DOMAIN tk |-> IF k \in S THEN [tk[k] EXCEPT !.stopped = TRUE] ELSE tk[k]]

Created == {k \in TickerIds : ticker[k].created}
Starting == {t \in Callers : call[t].op = "start"}
FreshTicker == CHOOSE k \in TickerIds \ Created :
                   \A j \in TickerIds \ Created : k <= j

\* StartCollecting on a disabled endpoint: only the status entry is written
StartCollecting_Disabled(t, c) ==
    /\ ~crashed
    /\ call[t].pc = "idle"
    /\ calls < MaxCalls
    /\ ~c.enabled
    /\ endpoints' = SetEndpoint(endpoints, c.id, "DISABLED")
    /\ calls' = calls + 1
    /\ UNCHANGED << cfg, fn, DataPointsCollected, Tickers, TickersLock, call, ticker, wk, sinkVars,
                    crashed, histVars >>

\* the body of StopCollecting up to the status update, run by caller t as
\* operation op on collector c: mcm.TickersLock.Lock(); ticker, ok :=
\* mcm.Tickers[id]; when ok: AddLogMessage("STOP collection"), ticker.Stop(),
\* delete(mcm.Tickers, id)
StopCollecting_Lock(t, op, c) ==
    /\ ~crashed
    /\ call[t].pc = "idle"
    /\ calls < MaxCalls
    /\ TickersLock = NoCaller
    /\ TickersLock' = t
    /\ LET k == Tickers[c.id]
       IN  /\ ticker' = StopTickers(ticker, {k} \ {NoTicker})
           /\ call' = [call EXCEPT ![t] =
                          [pc |-> "stop_status", op |-> op, col |-> c,
                           found |-> IF k = NoTicker THEN {} ELSE {k}]]
    /\ Tickers' = [Tickers EXCEPT ![c.id] = NoTicker]
    /\ calls' = calls + 1
    /\ UNCHANGED << cfg, fn, DataPointsCollected, wk, sinkVars, endpoints, crashed, histVars >>

\* StartCollecting on an enabled endpoint: it first calls StopCollecting(id)
StartCollecting_Begin(t, c) ==
    /\ c.enabled
    /\ Cardinality(Created) + Cardinality(Starting) < MaxTickers
    /\ StopCollecting_Lock(t, "start", c)

\* StopCollecting(id) called by itself
StopCollecting_Begin(t, i) ==
    StopCollecting_Lock(t, "stop", [NoCollector EXCEPT !.id = i])

\* StopCollecting_SetEndpoint returning without the status update
StopCollecting_SetEndpoint_Skipped(t) ==
    /\ ~crashed
    /\ call[t].pc = "stop_status"
    /\ TickersLock' = NoCaller
    /\ call' = [call EXCEPT ![t] =
                   IF call[t].op = "start"
                   THEN [call[t] EXCEPT !.pc = "start_status"]
                   ELSE IdleCall]
    /\ UNCHANGED << cfg, fn, DataPointsCollected, Tickers, ticker, wk, sinkVars, endpoints, crashed,
                    calls, histVars >>

\* StopCollecting_SetEndpoint returning with the lock still held
StopCollecting_SetEndpoint_NoUnlock(t) ==
    /\ ~crashed
    /\ call[t].pc = "stop_status"
    /\ endpoints' = SetEndpoint(endpoints, call[t].col.id, "")
    /\ call' = [call EXCEPT ![t] =
                   IF call[t].op = "start"
                   THEN [call[t] EXCEPT !.pc = "start_status"]
                   ELSE IdleCall]
    /\ UNCHANGED << cfg, fn, DataPointsCollected, Tickers, TickersLock, ticker, wk, sinkVars,
                    crashed, calls, histVars >>

\* StopCollecting: status.StatusReport.SetEndpoint(id, ""), then the deferred
\* Unlock and the return, to the caller of StopCollecting or into the rest of
\* StartCollecting
StopCollecting_SetEndpoint(t) ==
    /\ ~crashed
    /\ call[t].pc = "stop_status"
    /\ endpoints' = SetEndpoint(endpoints, call[t].col.id, "")
    /\ TickersLock' = NoCaller
    /\ call' = [call EXCEPT ![t] =
                   IF call[t].op = "start"
                   THEN [call[t] EXCEPT !.pc = "start_status"]
                   ELSE IdleCall]
    /\ UNCHANGED << cfg, fn, DataPointsCollected, Tickers, ticker, wk, sinkVars, crashed, calls, histVars >>

\* StartCollecting: AddLogMessage("START collection") and
\* SetEndpoint(id, "STARTING"), before the lock is taken
StartCollecting_Status(t) ==
    /\ ~crashed
    /\ call[t].pc = "start_status"
    /\ endpoints' = SetEndpoint(endpoints, call[t].col.id, "STARTING")
    /\ call' = [call EXCEPT ![t].pc = "start_lock"]
    /\ UNCHANGED << cfg, fn, DataPointsCollected, Tickers, TickersLock, ticker, wk, sinkVars, crashed,
                    calls, histVars >>

\* StartCollecting: mcm.TickersLock.Lock()
StartCollecting_Lock(t) ==
    /\ ~crashed
    /\ call[t].pc = "start_lock"
    /\ TickersLock = NoCaller
    /\ TickersLock' = t
    /\ call' = [call EXCEPT ![t].pc = "start_create"]
    /\ UNCHANGED << cfg, fn, DataPointsCollected, Tickers, ticker, wk, sinkVars, endpoints, crashed,
                    calls, histVars >>

\* StartCollecting_Create returning without the Unlock
StartCollecting_Create_NoUnlock(t) ==
    /\ ~crashed
    /\ call[t].pc = "start_create"
    /\ LET k == FreshTicker
       IN  /\ ticker' = [ticker EXCEPT ![k] =
                            [created |-> TRUE, stopped |-> FALSE,
                             pending |-> FALSE, id |-> call[t].col.id,
                             interval |-> EffectiveInterval(call[t].col, cfg)]]
           /\ Tickers' = [Tickers EXCEPT ![call[t].col.id] = k]
           /\ wk' = [wk EXCEPT ![k].pc = "wait", ![k].col = call[t].col]
    /\ call' = [call EXCEPT ![t] = IdleCall]
    /\ UNCHANGED << cfg, fn, DataPointsCollected, TickersLock, sinkVars, endpoints, crashed, calls,
                    histVars >>

\* StartCollecting: time.NewTicker(collectionInterval), which panics on an
\* interval that is not positive; mcm.Tickers[id] = ticker; go func(); then
\* the deferred Unlock and the return
StartCollecting_Create(t) ==
    /\ ~crashed
    /\ call[t].pc = "start_create"
    /\ LET d == EffectiveInterval(call[t].col, cfg)
           k == FreshTicker
       IN  IF d <= 0
           THEN /\ crashed' = TRUE
                /\ UNCHANGED << Tickers, ticker, wk >>
           ELSE /\ ticker' = [ticker EXCEPT ![k] =
                                 [created |-> TRUE, stopped |-> FALSE,
                                  pending |-> FALSE, id |-> call[t].col.id,
                                  interval |-> d]]
                /\ Tickers' = [Tickers EXCEPT ![call[t].col.id] = k]
                /\ wk' = [wk EXCEPT ![k].pc = "wait", ![k].col = call[t].col]
                /\ UNCHANGED crashed
    /\ TickersLock' = NoCaller
    /\ call' = [call EXCEPT ![t] = IdleCall]
    /\ UNCHANGED << cfg, fn, DataPointsCollected, sinkVars, endpoints, calls, histVars >>

\* StopCollectingAll: mcm.TickersLock.Lock(); AddLogMessage("STOP collecting
\* all ..."); the range over mcm.Tickers: ticker.Stop() and
\* delete(mcm.Tickers, id) for every entry
StopCollectingAll_Lock(t) ==
    /\ ~crashed
    /\ call[t].pc = "idle"
    /\ calls < MaxCalls
    /\ TickersLock = NoCaller
    /\ TickersLock' = t
    /\ LET inTable == {Tickers[i] : i \in Ids} \ {NoTicker}
       IN  /\ ticker' = StopTickers(ticker, inTable)
           /\ call' = [call EXCEPT ![t] =
                          [pc |-> "stopall_status", op |-> "stopall",
                           col |-> NoCollector, found |-> inTable]]
    /\ Tickers' = [i \in Ids |-> NoTicker]
    /\ calls' = calls + 1
    /\ UNCHANGED << cfg, fn, DataPointsCollected, wk, sinkVars, endpoints, crashed, histVars >>

\* StopCollectingAll_DeleteAll clearing only the entries of the stopped tickers
StopCollectingAll_DeleteAll_OnlyStopped(t) ==
    /\ ~crashed
    /\ call[t].pc = "stopall_status"
    /\ endpoints' = [i \in Ids |->
                        IF \E k \in call[t].found : ticker[k].id = i
                        THEN "" ELSE endpoints[i]]
    /\ TickersLock' = NoCaller
    /\ call' = [call EXCEPT ![t] = IdleCall]
    /\ UNCHANGED << cfg, fn, DataPointsCollected, Tickers, ticker, wk, sinkVars, crashed, calls,
                    histVars >>

\* StopCollectingAll: status.StatusReport.DeleteAllEndpoints(), then the
\* deferred Unlock and the return
StopCollectingAll_DeleteAll(t) ==
    /\ ~crashed
    /\ call[t].pc = "stopall_status"
    /\ endpoints' = DeleteAllEndpoints(endpoints)
    /\ TickersLock' = NoCaller
    /\ call' = [call EXCEPT ![t] = IdleCall]
    /\ UNCHANGED << cfg, fn, DataPointsCollected, Tickers, ticker, wk, sinkVars, crashed, calls, histVars >>


\* ------------------------------------------------- the ticker and its worker

\* the runtime delivers a tick on ticker.C, a channel of capacity one: a tick
\* that finds the channel full is dropped, a stopped ticker sends no tick
Tick(k) ==
    /\ ~crashed
    /\ ticker[k].created
    /\ ~ticker[k].stopped
    /\ ~ticker[k].pending
    /\ ticker' = [ticker EXCEPT ![k].pending = TRUE]
    /\ UNCHANGED << cfg, fn, DataPointsCollected, mgrVars, wk, sinkVars, endpoints, crashed, histVars >>

CyclesRun == LET RECURSIVE Sum(_)
                 Sum(S) == IF S = {} THEN 0
                           ELSE LET k == CHOOSE x \in S : TRUE
                                IN  wk[k].cycles + Sum(S \ {k})
             IN  Sum(TickerIds)

\* Worker_Receive on a channel that keeps every tick that came during a cycle
Worker_Receive_TicksKept(k) ==
    /\ ~crashed
    /\ wk[k].pc = "wait"
    /\ ticker[k].pending
    /\ CyclesRun < MaxCycles
    /\ wk' = [wk EXCEPT ![k].pc = "scrape", ![k].cycles = @ + 1]
    /\ UNCHANGED << cfg, fn, DataPointsCollected, mgrVars, ticker, sinkVars, endpoints, crashed, histVars >>

\* for _ = range ticker.C: the worker receives a tick and calls CollectMetrics
Worker_Receive(k) ==
    /\ ~crashed
    /\ wk[k].pc = "wait"
    /\ ticker[k].pending
    /\ CyclesRun < MaxCycles
    /\ ticker' = [ticker EXCEPT ![k].pending = FALSE]
    /\ wk' = [wk EXCEPT ![k].pc = "scrape", ![k].cycles = @ + 1]
    /\ UNCHANGED << cfg, fn, DataPointsCollected, mgrVars, sinkVars, endpoints, crashed, histVars >>

\* Worker_ScrapeFailed without the else: after the failure message the cycle
\* goes on and sends the (empty) batch
Worker_ScrapeFailed_GoesOn(k) ==
    /\ ~crashed
    /\ wk[k].pc = "scrape"
    /\ endpoints' = SetEndpoint(endpoints, ticker[k].id, "FAILED")
    /\ wk' = [wk EXCEPT ![k].pc = "send", ![k].needed = {},
                        ![k].tosend = << {} >>]
    /\ UNCHANGED << cfg, fn, DataPointsCollected, mgrVars, ticker, sinkVars, crashed, histVars >>

\* Worker_ScrapeFailed forgetting the declared definitions
Worker_ScrapeFailed_ClearsDeclared(k) ==
    /\ ~crashed
    /\ wk[k].pc = "scrape"
    /\ endpoints' = SetEndpoint(endpoints, ticker[k].id, "FAILED")
    /\ wk' = [wk EXCEPT ![k].pc = "wait", ![k].declared = {}]
    /\ UNCHANGED << cfg, fn, DataPointsCollected, mgrVars, ticker, sinkVars, crashed, histVars >>

\* CollectMetrics returns an error: SetEndpoint(id, "Failed to collect ...")
Worker_ScrapeFailed(k) ==
    /\ ~crashed
    /\ wk[k].pc = "scrape"
    /\ endpoints' = SetEndpoint(endpoints, ticker[k].id, "FAILED")
    /\ wk' = [wk EXCEPT ![k].pc = "wait"]
    /\ UNCHANGED << cfg, fn, DataPointsCollected, mgrVars, ticker, sinkVars, crashed, histVars >>

\* CollectMetrics returns metrics: the loop over them notes in
\* metricDefinitionsNeeded every emitted id that is not in
\* metricDefinitionsDeclared; the batches wait to be sent
Worker_Scraped(k, r) ==
    /\ ~crashed
    /\ wk[k].pc = "scrape"
    /\ LET emitted == r.plain \cup UNION {r.splits[n] : n \in DOMAIN r.splits}
       IN  wk' = [wk EXCEPT ![k].pc = "send",
                            ![k].needed = emitted \ wk[k].declared,
                            ![k].tosend = Append(r.splits, r.plain)]
    /\ scrapedOk' = [scrapedOk EXCEPT ![k] = TRUE]
    /\ UNCHANGED << cfg, fn, DataPointsCollected, mgrVars, ticker, sinkVars, endpoints, crashed,
                    dataSent, dataIds, defsSent >>

\* Worker_Send as a send that does not block: a batch that finds the channel
\* full is dropped
Worker_Send_DropsWhenFull(k) ==
    /\ ~crashed
    /\ wk[k].pc = "send"
    /\ IF Len(metricsChan) < ChanCap
       THEN /\ metricsChan' = Append(metricsChan, Head(wk[k].tosend))
            /\ dataSent' = [dataSent EXCEPT ![k] = @ + 1]
            /\ dataIds' = [dataIds EXCEPT ![k] = @ \cup Head(wk[k].tosend)]
       ELSE UNCHANGED << metricsChan, dataSent, dataIds >>
    /\ wk' = [wk EXCEPT
                 ![k].tosend = Tail(@),
                 ![k].pc = IF Len(wk[k].tosend) > 1 THEN "send"
                           ELSE IF wk[k].needed # {} THEN "details"
                           ELSE "finish"]
    /\ UNCHANGED << cfg, fn, DataPointsCollected, mgrVars, ticker, metricDefsChan,
                    endpoints, crashed, defsSent, scrapedOk >>

\* Worker_Send giving up the cycle when its ticker has been stopped
Worker_Send_CancelledWhenStopped(k) ==
    /\ ~crashed
    /\ wk[k].pc = "send"
    /\ IF ticker[k].stopped
       THEN /\ wk' = [wk EXCEPT ![k].pc = "wait", ![k].tosend = << >>,
                                ![k].needed = {}]
            /\ UNCHANGED << metricsChan, dataSent, dataIds >>
       ELSE /\ Len(metricsChan) < ChanCap
            /\ metricsChan' = Append(metricsChan, Head(wk[k].tosend))
            /\ dataSent' = [dataSent EXCEPT ![k] = @ + 1]
            /\ dataIds' = [dataIds EXCEPT ![k] = @ \cup Head(wk[k].tosend)]
            /\ wk' = [wk EXCEPT
                         ![k].tosend = Tail(@),
                 ![k].total = @ + Cardinality(Head(wk[k].tosend)),
                         ![k].pc = IF Len(wk[k].tosend) > 1 THEN "send"
                                   ELSE IF wk[k].needed # {} THEN "details"
                                   ELSE "finish"]
    /\ UNCHANGED << cfg, fn, DataPointsCollected, mgrVars, ticker, metricDefsChan, endpoints, crashed,
                    defsSent, scrapedOk >>

\* mcm.metricsChan <- splitMetrics, and at last mcm.metricsChan <- collectedMetrics:
\* a blocking send, then totalNumberOfMetricsCollected += len(...); after the
\* last one, createMetricDefinition when any definition is needed
Worker_Send(k) ==
    /\ ~crashed
    /\ wk[k].pc = "send"
    /\ Len(metricsChan) < ChanCap
    /\ metricsChan' = Append(metricsChan, Head(wk[k].tosend))
    /\ dataSent' = [dataSent EXCEPT ![k] = @ + 1]
    /\ dataIds' = [dataIds EXCEPT ![k] = @ \cup Head(wk[k].tosend)]
    /\ wk' = [wk EXCEPT
                 ![k].tosend = Tail(@),
                 ![k].total = @ + Cardinality(Head(wk[k].tosend)),
                 ![k].pc = IF Len(wk[k].tosend) > 1 THEN "send"
                           ELSE IF wk[k].needed # {} THEN "details"
                           ELSE "finish"]
    /\ UNCHANGED << cfg, fn, DataPointsCollected, mgrVars, ticker, metricDefsChan, endpoints, crashed,
                    defsSent, scrapedOk >>

\* createMetricDefinition: CollectMetricDetails returns the details
Worker_Details(k) ==
    /\ ~crashed
    /\ wk[k].pc = "details"
    /\ wk' = [wk EXCEPT ![k].pc = "senddefs", ![k].detailsErr = FALSE]
    /\ UNCHANGED << cfg, fn, DataPointsCollected, mgrVars, ticker, sinkVars, endpoints, crashed, histVars >>

\* Worker_DetailsFailed returning the error at once, no definition pushed
Worker_DetailsFailed_GivesUp(k) ==
    /\ ~crashed
    /\ wk[k].pc = "details"
    /\ endpoints' = SetEndpoint(endpoints, ticker[k].id, "NODETAILS")
    /\ wk' = [wk EXCEPT ![k].pc = "finish", ![k].detailsErr = TRUE]
    /\ UNCHANGED << cfg, fn, DataPointsCollected, mgrVars, ticker, sinkVars, crashed, histVars >>

\* createMetricDefinition: CollectMetricDetails fails:
\* SetEndpoint(id, "Failed to obtain metric details ..."), err = e, keep going
Worker_DetailsFailed(k) ==
    /\ ~crashed
    /\ wk[k].pc = "details"
    /\ endpoints' = SetEndpoint(endpoints, ticker[k].id, "NODETAILS")
    /\ wk' = [wk EXCEPT ![k].pc = "senddefs", ![k].detailsErr = TRUE]
    /\ UNCHANGED << cfg, fn, DataPointsCollected, mgrVars, ticker, sinkVars, crashed, histVars >>

\* DeclaredAfter merging the needed ids whatever createMetricDefinition returned
DeclaredAfter_MergeOnError(w) == w.declared \cup w.needed

\* DeclaredAfter without the merge of the needed ids
DeclaredAfter_NoMerge(w) == w.declared

\* the declared set after createMetricDefinition returned: the needed ids are
\* merged in when it returned no error
DeclaredAfter(w) ==
    IF w.detailsErr THEN w.declared ELSE w.declared \cup w.needed

\* endpoint.Tenant: the tenant the endpoint of a collector is configured with
EndpointTenant(col) == "tenant_" \o col.id

\* MetricDefs making one definition per metric name, under the name
MetricDefs_PerName(w) ==
    [id \in {NameOf(x) : x \in w.needed} |->
        LET mm == MonitoredMetrics[id]
            d == FindDetails(mm.Name, IF w.detailsErr THEN {} ELSE AdapterDetails)
        IN  [Tenant |-> EndpointTenant(w.col), ID |-> id,
             Type |-> MetricType(mm, d), Description |-> MetricDescription(mm, d)]]

\* createMetricDefinition: the definitions made for the needed ids of worker
\* record w, from the details when CollectMetricDetails returned them and
\* from an empty list of details when it failed
MetricDefs(w) ==
    [id \in w.needed |->
        LET mm == MonitoredMetrics[NameOf(id)]
            d == FindDetails(mm.Name, IF w.detailsErr THEN {} ELSE AdapterDetails)
        IN  [Tenant |-> EndpointTenant(w.col), ID |-> id,
             Type |-> MetricType(mm, d), Description |-> MetricDescription(mm, d)]]

\* createMetricDefinition: mcm.metricDefsChan <- metricDefs, one definition
\* per needed id, a blocking send; then the merge into the declared set
Worker_SendDefs(k) ==
    /\ ~crashed
    /\ wk[k].pc = "senddefs"
    /\ Len(metricDefsChan) < ChanCap
    /\ metricDefsChan' = Append(metricDefsChan, wk[k].needed)
    /\ defsSent' = [defsSent EXCEPT ![k] =
                       Append(@, [ids |-> wk[k].needed,
                                  detailsOk |-> ~wk[k].detailsErr,
                                  defs |-> MetricDefs(wk[k])])]
    /\ wk' = [wk EXCEPT ![k].pc = "finish",
                        ![k].declared = DeclaredAfter(wk[k])]
    /\ UNCHANGED << cfg, fn, DataPointsCollected, mgrVars, ticker, metricsChan, endpoints, crashed,
                    dataSent, dataIds, scrapedOk >>

\* the worker has left the loop over ticker.C and its goroutine has ended: the
\* loop ends only when ticker.C is closed, and nothing closes it (Stop() does
\* not), so no step of the worker leads here
Terminated(k) == wk[k].pc = "done"

\* the end of a cycle: DataPointsCollected.Add(totalNumberOfMetricsCollected)
\* and SetEndpoint(id, "OK. Last collection at ...")
Worker_Finish(k) ==
    /\ ~crashed
    /\ wk[k].pc = "finish"
    /\ DataPointsCollected' = DataPointsCollected + wk[k].total
    /\ endpoints' = SetEndpoint(endpoints, ticker[k].id, "OK")
    /\ wk' = [wk EXCEPT ![k].pc = "wait", ![k].needed = {},
                        ![k].detailsErr = FALSE, ![k].total = 0]
    /\ UNCHANGED << cfg, fn, mgrVars, ticker, sinkVars, crashed, histVars >>

\* ------------------------------------------------------------------ the sink

\* the store client receives a batch of datapoints
Sink_Metrics ==
    /\ ~crashed
    /\ metricsChan # << >>
    /\ metricsChan' = Tail(metricsChan)
    /\ UNCHANGED << cfg, fn, DataPointsCollected, mgrVars, ticker, wk, metricDefsChan, endpoints, crashed,
                    histVars >>

\* the store client receives a batch of definitions
Sink_Defs ==
    /\ ~crashed
    /\ metricDefsChan # << >>
    /\ metricDefsChan' = Tail(metricDefsChan)
    /\ UNCHANGED << cfg, fn, DataPointsCollected, mgrVars, ticker, wk, metricsChan, endpoints, crashed,
                    histVars >>

\* ------------------------------------------------------------ specifications

\* a manager call is made
CallBegin(t, cs) ==
    \/ \E c \in cs : StartCollecting_Disabled(t, c)
    \/ \E c \in cs : StartCollecting_Begin(t, c)
    \/ \E i \in Ids : StopCollecting_Begin(t, i)
    \/ StopCollectingAll_Lock(t)

\* a manager call in progress takes its next step
CallStep(t) ==
    \/ StopCollecting_SetEndpoint(t)
    \/ StartCollecting_Status(t)
    \/ StartCollecting_Lock(t)
    \/ StartCollecting_Create(t)
    \/ StopCollectingAll_DeleteAll(t)

\* a worker goroutine takes its next step
WorkerStep(k) ==
    \/ Worker_Receive(k)
    \/ Worker_ScrapeFailed(k)
    \/ \E r \in ScrapeResults : Worker_Scraped(k, r)
    \/ Worker_Send(k)
    \/ Worker_Details(k)
    \/ Worker_DetailsFailed(k)
    \/ Worker_SendDefs(k)
    \/ Worker_Finish(k)

Background ==
    \/ \E k \in TickerIds : Tick(k)
    \/ \E k \in TickerIds : WorkerStep(k)
    \/ Sink_Metrics
    \/ Sink_Defs

AllIdle == \A t \in Callers : call[t].pc = "idle"

\* any interleaving of manager calls, workers, ticks and the sink
Next ==
    \/ \E t \in Callers : CallBegin(t, RunCollectors)
    \/ \E t \in Callers : CallStep(t)
    \/ Background

Spec == Init /\ [][Next]_vars

\* manager calls one at a time: a call is made only when none is in progress
NextSeq ==
    \/ \E t \in Callers : AllIdle /\ CallBegin(t, RunCollectors)
    \/ \E t \in Callers : CallStep(t)
    \/ Background

SpecSeq == Init /\ [][NextSeq]_vars

\* StartCollecting and StopCollecting calls one at a time, the workers, the
\* ticks and the sink beside them
NextStop ==
    \/ \E t \in Callers : \E c \in RunCollectors :
          AllIdle /\ StartCollecting_Disabled(t, c)
    \/ \E t \in Callers : \E c \in RunCollectors :
          AllIdle /\ StartCollecting_Begin(t, c)
    \/ \E t \in Callers : \E i \in Ids : AllIdle /\ StopCollecting_Begin(t, i)
    \/ \E t \in Callers : StopCollecting_SetEndpoint(t)
    \/ \E t \in Callers : StartCollecting_Status(t)
    \/ \E t \in Callers : StartCollecting_Lock(t)
    \/ \E t \in Callers : StartCollecting_Create(t)
    \/ Background

SpecStop == Init /\ [][NextStop]_vars

\* the interval computation on every configuration and every endpoint interval:
\* manager calls one at a time, no worker running
InitInterval == cfg \in Configs /\ fn = NoFn /\ InitState

NextInterval ==
    \/ \E t \in Callers : AllIdle /\ CallBegin(t, AllCollectors)
    \/ \E t \in Callers : CallStep(t)

SpecInterval == InitInterval /\ [][NextInterval]_vars

\* goroutines are scheduled fairly, every adapter call returns, the runtime
\* keeps delivering ticks and the sink keeps receiving
Fairness ==
    /\ \A k \in TickerIds : WF_vars(WorkerStep(k))
    /\ WF_vars(Sink_Metrics)
    /\ WF_vars(Sink_Defs)

SpecFair == Spec /\ Fairness

\* ------------------------------------------------- templates and expansion

\* a template is a sequence of pieces, each a literal text or a token
\* (${name} or $name)
Lit(s) == [lit |-> s]
Tok(n) == [tok |-> n]
IsTok(c) == "tok" \in DOMAIN c

\* a map with no key
NoMap == [k \in {} |-> ""]

\* b laid over a: the keys of both, the value of b where both have the key
Merge(a, b) ==
    [k \in DOMAIN a \cup DOMAIN b |-> IF k \in DOMAIN b THEN b[k] ELSE a[k]]

\* expand.MappingFunc(conf) applied to a token name: the value in conf.Env,
\* else the OS environment variable when conf.UseOSEnv, else the token itself
\* when conf.DoNotExpandIfNotFound, else the empty string
MappingFunc(conf, name) ==
    IF name \in DOMAIN conf.Env THEN Lit(conf.Env[name])
    ELSE IF conf.UseOSEnv /\ name \in DOMAIN conf.OSEnv THEN Lit(conf.OSEnv[name])
    ELSE IF conf.DoNotExpandIfNotFound THEN Tok(name)
    ELSE Lit("")

\* os.Expand(template, mapping): every token is replaced by what the mapping
\* gives for its name
Expand(t, conf) ==
    [n \in DOMAIN t |-> IF IsTok(t[n]) THEN MappingFunc(conf, t[n].tok) ELSE t[n]]

\* strings.Contains(id, "${")
ContainsToken(t) == \E n \in DOMAIN t : IsTok(t[n])

\* the string a sequence of pieces stands for
RECURSIVE Render(_)
Render(t) ==
    IF t = << >> THEN ""
    ELSE (IF IsTok(Head(t)) THEN "${" \o Head(t).tok \o "}" ELSE Head(t).lit)
         \o Render(Tail(t))

\* tags.Tags.ExpandTokens(conf): every value is expanded, the keys stay
ExpandTokens(tgs, conf) ==
    [k \in DOMAIN tgs |-> Render(Expand(tgs[k], conf))]

\* tags.Tags.AppendTags: the appended tags override the ones already there
AppendTags(all, tgs) == Merge(all, tgs)

\* ---------------------------------------------- the tags of a definition

\* createMetricDefinition: the environment of the tag expansion, the four
\* METRIC: values with the additional environment of the endpoint laid over
TagEnv(in) ==
    Merge([n \in {"METRIC:name", "METRIC:id", "METRIC:units",
                  "METRIC:description"} |->
              CASE n = "METRIC:name" -> in.name
                [] n = "METRIC:id" -> in.metricId
                [] n = "METRIC:units" -> in.units
                [] OTHER -> in.description],
          in.additionalEnv)

\* MetricTags with the fixed tags set first and the custom tags laid over them
MetricTags_FixedFirst(in) ==
    LET noOsEnv == [Env |-> TagEnv(in), UseOSEnv |-> FALSE, OSEnv |-> in.osEnv,
                    DoNotExpandIfNotFound |-> FALSE]
        fixed == Merge(IF in.description # ""
                       THEN [k \in {"description"} |-> in.description] ELSE NoMap,
                       IF in.units # "" THEN [k \in {"units"} |-> in.units]
                       ELSE NoMap)
    IN  Merge(fixed, ExpandTokens(in.metricTags, noOsEnv))

\* createMetricDefinition: the metric tags, the custom tags expanded without
\* the OS environment, then the fixed tags description and units
MetricTags(in) ==
    LET noOsEnv == [Env |-> TagEnv(in), UseOSEnv |-> FALSE, OSEnv |-> in.osEnv,
                    DoNotExpandIfNotFound |-> FALSE]
        custom == ExpandTokens(in.metricTags, noOsEnv)
        described == IF in.description # ""
                     THEN Merge(custom, [k \in {"description"} |-> in.description])
                     ELSE custom
    IN  IF in.units # ""
        THEN Merge(described, [k \in {"units"} |-> in.units])
        ELSE described

\* createMetricDefinition: the endpoint tags, expanded without the OS environment
EndpointTags(in) ==
    ExpandTokens(in.endpointTags,
                 [Env |-> TagEnv(in), UseOSEnv |-> FALSE, OSEnv |-> in.osEnv,
                  DoNotExpandIfNotFound |-> FALSE])

\* createMetricDefinition: the global tags, expanded with the OS environment
GlobalTags(in) ==
    ExpandTokens(in.globalTags,
                 [Env |-> TagEnv(in), UseOSEnv |-> TRUE, OSEnv |-> in.osEnv,
                  DoNotExpandIfNotFound |-> FALSE])

\* AllMetricTags with the layers appended the other way round
AllMetricTags_GlobalFirst(in) ==
    AppendTags(AppendTags(AppendTags(NoMap, GlobalTags(in)), MetricTags(in)),
               EndpointTags(in))

\* createMetricDefinition: allMetricTags, the endpoint tags, then the metric
\* tags, then the global tags
AllMetricTags(in) ==
    AppendTags(AppendTags(AppendTags(NoMap, EndpointTags(in)), MetricTags(in)),
               GlobalTags(in))

\* the tag keys of the tag inputs: one custom key and the two fixed ones
TagKeys == {"env", "description", "units"}

\* the tags of one layer: any of the keys, each with the layer's name as value
LayerTags(layer) ==
    UNION { [S -> {<< Lit(layer) >>}] : S \in SUBSET TagKeys }

\* the inputs of the tag composition: the three layers, the description and
\* the units symbol of the metric
TagInputs ==
    [name : {"bar"}, metricId : {"bar"}, additionalEnv : {NoMap},
     osEnv : {NoMap},
     endpointTags : LayerTags("endpoint"), metricTags : LayerTags("metric"),
     globalTags : LayerTags("global"),
     description : {"", "described"}, units : {"", "ms"}]

InitTags ==
    /\ cfg = RunConfig
    /\ fn \in [phase : {"tags_in"}, in : TagInputs]
    /\ InitState

\* createMetricDefinition makes the tags of the definition
CreateMetricDefinition_Tags ==
    /\ fn.phase = "tags_in"
    /\ fn' = [phase |-> "tags_out", in |-> fn.in, tags |-> AllMetricTags(fn.in)]
    /\ UNCHANGED << cfg, DataPointsCollected, mgrVars, ticker, wk, sinkVars,
                    endpoints, crashed, histVars >>

SpecTags == InitTags /\ [][CreateMetricDefinition_Tags]_vars

\* ------------------------------------------------- the identity expansion

\* IdMapping replacing a token that is not found by the empty string
IdMapping_DropsMissing(in) ==
    [Env |-> in.additionalEnv, UseOSEnv |-> FALSE, OSEnv |-> in.osEnv,
     DoNotExpandIfNotFound |-> FALSE]

\* the mapping of the id templates: the additional environment only, a token
\* that is not found stays
IdMapping(in) ==
    [Env |-> in.additionalEnv, UseOSEnv |-> FALSE, OSEnv |-> in.osEnv,
     DoNotExpandIfNotFound |-> TRUE]

\* the mapping of the prefix: the additional environment and the OS environment
PrefixMapping(in) ==
    [Env |-> in.additionalEnv, UseOSEnv |-> TRUE, OSEnv |-> in.osEnv,
     DoNotExpandIfNotFound |-> FALSE]

\* the mapping of a split: the labels of the datapoint only
LabelMapping(in, datapt) ==
    [Env |-> datapt.Tags, UseOSEnv |-> FALSE, OSEnv |-> in.osEnv,
     DoNotExpandIfNotFound |-> FALSE]

\* the monitored metric made for a collected metric of an endpoint that lists
\* no metrics
SyntheticMetric(cm) == [ID |-> << Lit(cm.ID) >>, Name |-> cm.ID, Type |-> cm.Type]

\* LookupMetric guessing a monitored metric for a name that is not listed
LookupMetric_GuessUnlisted(metrics, cm) ==
    IF cm.ID \in DOMAIN metrics
    THEN [ok |-> TRUE, mm |-> metrics[cm.ID]]
    ELSE [ok |-> TRUE, mm |-> SyntheticMetric(cm)]

\* the monitored metric of a collected metric: the listed one with its name,
\* none when the list is not empty and has no such name, a synthetic one
\* when the list is empty
LookupMetric(metrics, cm) ==
    IF DOMAIN metrics # {}
    THEN IF cm.ID \in DOMAIN metrics
         THEN [ok |-> TRUE, mm |-> metrics[cm.ID]]
         ELSE [ok |-> FALSE, mm |-> SyntheticMetric(cm)]
    ELSE [ok |-> TRUE, mm |-> SyntheticMetric(cm)]

\* PrefixedId leaving the prefix out
PrefixedId_NoPrefix(in, mm) == Expand(mm.ID, IdMapping(in))

\* PrefixedId with the id template expanded like the prefix
PrefixedId_TemplateWithOSEnv(in, mm) ==
    Expand(in.prefix, PrefixMapping(in)) \o Expand(mm.ID, PrefixMapping(in))

\* os.Expand(Metric_ID_Prefix, mappingFuncWithOsEnv) + os.Expand(monitoredMetric.ID, mappingFunc)
PrefixedId(in, mm) ==
    Expand(in.prefix, PrefixMapping(in)) \o Expand(mm.ID, IdMapping(in))

\* the label keys of all datapoints of a collected metric (keysMap)
LabelKeys(cm) == UNION {DOMAIN cm.Data[j].Tags : j \in DOMAIN cm.Data}

\* the label keys of the inputs, in lexicographic order
KeyOrder == << "k", "m" >>

\* SortedKeys leaving the keys in another order
SortedKeys_Unsorted(S) ==
    SelectSeq(<< KeyOrder[2], KeyOrder[1] >>, LAMBDA x : x \in S)

\* sort.Strings(keys)
SortedKeys(S) == SelectSeq(KeyOrder, LAMBDA x : x \in S)

\* keysString: k1=${k1},k2=${k2},...
RECURSIVE KeysString(_, _)
KeysString(keys, comma) ==
    IF keys = << >> THEN << >>
    ELSE << Lit(comma \o Head(keys) \o "="), Tok(Head(keys)) >>
         \o KeysString(Tail(keys), ",")

\* the id a metric is split by: an id without a token gets the sorted label
\* keys appended when a datapoint has a label
SplitTemplate(id, cm) ==
    IF ~ContainsToken(id) /\ LabelKeys(cm) # {}
    THEN id \o << Lit("{") >> \o KeysString(SortedKeys(LabelKeys(cm)), "")
            \o << Lit("}") >>
    ELSE id

\* SplitMetrics giving every series the id template as it is
SplitMetrics_Unexpanded(in, id, cm, i) ==
    [j \in DOMAIN cm.Data |->
        [Tenant |-> cm.Tenant, Type |-> cm.Type, Data |-> << cm.Data[j] >>,
         ID |-> Render(id), from |-> i]]

\* splitMetrics: one series per datapoint, its id expanded with the labels of
\* the datapoint; from is the position of the collected metric (history)
SplitMetrics(in, id, cm, i) ==
    [j \in DOMAIN cm.Data |->
        [Tenant |-> cm.Tenant, Type |-> cm.Type, Data |-> << cm.Data[j] >>,
         ID |-> Render(Expand(id, LabelMapping(in, cm.Data[j]))), from |-> i]]

\* one turn of the loop over the collected metrics: the metric is dropped,
\* split into one batch, or stays in the list under its expanded id
ExpandMetric(in, i) ==
    LET cm == in.collected[i]
        l == LookupMetric(in.metrics, cm)
        id == SplitTemplate(PrefixedId(in, l.mm), cm)
    IN  IF ~l.ok THEN [kind |-> "dropped", series |-> << >>, mm |-> l.mm]
        ELSE IF ContainsToken(id)
        THEN [kind |-> "split", series |-> SplitMetrics(in, id, cm, i), mm |-> l.mm]
        ELSE [kind |-> "plain",
              series |-> << [Tenant |-> cm.Tenant, Type |-> cm.Type,
                             Data |-> cm.Data, ID |-> Render(id), from |-> i] >>,
              mm |-> l.mm]

\* metricDefinitionsNeeded after the first n collected metrics: the ids that
\* are not declared, each with the monitored metric of the last series of
\* that id
RECURSIVE NeededAfter(_, _)
NeededAfter(in, n) ==
    IF n = 0 THEN NoMap
    ELSE LET r == ExpandMetric(in, n)
             ids == {r.series[j].ID : j \in DOMAIN r.series} \ in.declared
         IN  Merge(NeededAfter(in, n - 1), [id \in ids |-> r.mm])

\* the batches of a cycle in the order they are sent: one per split metric,
\* then the metrics that were neither dropped nor split
RECURSIVE SplitBatches(_, _)
SplitBatches(in, n) ==
    IF n = 0 THEN << >>
    ELSE LET r == ExpandMetric(in, n)
         IN  SplitBatches(in, n - 1)
             \o (IF r.kind = "split" THEN << r.series >> ELSE << >>)

\* collectedMetrics after the removal loop: a metric stays when its ID is not
\* the empty string, which is the mark of a dropped and of a split metric
RECURSIVE PlainBatch(_, _)
PlainBatch(in, n) ==
    IF n = 0 THEN << >>
    ELSE LET r == ExpandMetric(in, n)
         IN  PlainBatch(in, n - 1)
             \o (IF r.kind = "plain"
                 THEN SelectSeq(r.series, LAMBDA x : x.ID # "")
                 ELSE << >>)

\* totalNumberOfMetricsCollected after the batches were sent: len(splitMetrics)
\* for every split metric and len(collectedMetrics) for the last batch
RECURSIVE TotalCollected(_)
TotalCollected(batches) ==
    IF batches = << >> THEN 0
    ELSE Len(Head(batches)) + TotalCollected(Tail(batches))

\* what a cycle sends and needs for one list of collected metrics, and the
\* number it adds to DataPointsCollected and reports in the OK message
ExpandCycle(in) ==
    LET batches == Append(SplitBatches(in, Len(in.collected)),
                          PlainBatch(in, Len(in.collected)))
    IN  [batches |-> batches,
         needed |-> NeededAfter(in, Len(in.collected)),
         total |-> TotalCollected(batches)]

\* datapoints: a value and the labels
Datapoint(v, tgs) == [Value |-> v, Tags |-> tgs]
LabelK(v) == [x \in {"k"} |-> v]
LabelM(v) == [x \in {"m"} |-> v]

\* the data a collected metric can have (never empty): no label; label k on
\* both datapoints; both labels on one datapoint and none on the other; a
\* different label on each; two datapoints without a label
DataChoices ==
    { << Datapoint(1, NoMap) >>,
      << Datapoint(1, NoMap), Datapoint(2, NoMap) >>,
      << Datapoint(1, LabelK("a")), Datapoint(2, LabelK("b")) >>,
      << Datapoint(1, Merge(LabelK("a"), LabelM("x"))), Datapoint(2, NoMap) >>,
      << Datapoint(1, LabelM("x")), Datapoint(2, LabelK("a")) >> }

\* the collected metrics an adapter returns: the ID is the metric name
CollectedChoices ==
    [ID : {"foo", "bar", "baz"}, Type : {"gauge", "counter"}, Tenant : {"t1"},
     Data : DataChoices]

\* lists of one or two collected metrics, of different names
CollectedLists ==
    { << c >> : c \in CollectedChoices }
    \cup { l \in CollectedChoices \X CollectedChoices : l[1].ID # l[2].ID }

\* a listed monitored metric as the endpoint declares it; the id may be missing
Listed(name, id) == [ID |-> id, Name |-> name, Type |-> "gauge"]

\* the metric lists an endpoint declares, by name: none; foo; foo and bar
\* with a label token; bar; bar with a token of the additional environment;
\* bar whose id is a label token alone; bar without an id
DeclaredLists ==
    { NoMap,
      [n \in {"foo"} |-> Listed("foo", << Lit("foo") >>)],
      [n \in {"foo", "bar"} |->
          IF n = "foo" THEN Listed("foo", << Lit("foo") >>)
          ELSE Listed("bar", << Lit("bar_"), Tok("k") >>)],
      [n \in {"bar"} |-> Listed("bar", << Lit("bar") >>)],
      [n \in {"bar"} |-> Listed("bar", << Lit("bar_"), Tok("pod") >>)],
      [n \in {"bar"} |-> Listed("bar", << Tok("k") >>)],
      [n \in {"bar"} |-> Listed("bar", << >>)] }

\* a metric that is declared without an id gets its name as the id
DefaultId(mm) == IF mm.ID = << >> THEN [mm EXCEPT !.ID = << Lit(mm.Name) >>] ELSE mm

\* the monitored metrics of an endpoint as the manager gets them
LoadMetrics(listed) == [n \in DOMAIN listed |-> DefaultId(listed[n])]

\* the metric lists of the endpoints
MetricLists == { LoadMetrics(d) : d \in DeclaredLists }

\* the inputs of one cycle's expansion; listed is the declaration the
\* monitored metrics come from (history)
ExpandInputs ==
    { [metrics |-> LoadMetrics(d), listed |-> d, collected |-> c,
       prefix |-> p, additionalEnv |-> [x \in {"pod"} |-> "pod1"],
       osEnv |-> NoMap, declared |-> dc] :
         d \in DeclaredLists, c \in CollectedLists,
         p \in {<< >>, << Lit("p_") >>},
         dc \in {{}, {"foo", "bar{k=a}"}} }

InitExpand ==
    /\ cfg = RunConfig
    /\ fn \in [phase : {"expand_in"}, in : ExpandInputs]
    /\ InitState

\* the loop over the collected metrics of one cycle
Worker_Expand ==
    /\ fn.phase = "expand_in"
    /\ fn' = [phase |-> "expand_out", in |-> fn.in, out |-> ExpandCycle(fn.in)]
    /\ UNCHANGED << cfg, DataPointsCollected, mgrVars, ticker, wk, sinkVars,
                    endpoints, crashed, histVars >>

SpecExpand == InitExpand /\ [][Worker_Expand]_vars

\* the expansion with an additional environment that can hold an empty value
\* (a pod has no subdomain): bar is declared by that token alone, or with the
\* token after a literal, or the endpoint lists nothing
EmptyValueLists ==
    { NoMap,
      [n \in {"bar"} |-> Listed("bar", << Tok("pod") >>)],
      [n \in {"bar"} |-> Listed("bar", << Lit("bar_"), Tok("pod") >>)] }

EmptyValueInputs ==
    { [metrics |-> LoadMetrics(d), listed |-> d, collected |-> c,
       prefix |-> p, additionalEnv |-> [x \in {"pod"} |-> v],
       osEnv |-> NoMap, declared |-> {}] :
         d \in EmptyValueLists, c \in CollectedLists,
         p \in {<< >>, << Lit("p_") >>}, v \in {"", "pod1"} }

InitEmptyValue ==
    /\ cfg = RunConfig
    /\ fn \in [phase : {"expand_in"}, in : EmptyValueInputs]
    /\ InitState

SpecEmptyValue == InitEmptyValue /\ [][Worker_Expand]_vars

\* --------------------------------------- two runs in two OS environments

\* the OS environments of the agent
OSEnvs ==
    { NoMap,
      [x \in {"SECRET"} |-> "s1"],
      [x \in {"SECRET"} |-> "s2"],
      [x \in {"SECRET", "pod"} |-> IF x = "SECRET" THEN "s1" ELSE "ospod"] }

\* tag values a pod or the agent configuration can give
TagValueTemplates ==
    { << Lit("v") >>, << Tok("SECRET") >>, << Tok("pod") >>,
      << Tok("METRIC:id") >>, << Tok("METRIC:name") >> }

\* the inputs of a run but for the OS environment: the prefix and the global
\* tag come from the agent configuration, the id template, the endpoint tag
\* and the metric tag from the pod
EnvInputs ==
    [prefix : {<< >>, << Lit("p_") >>, << Tok("SECRET"), Lit("_") >>,
               << Tok("pod"), Lit("_") >>},
     idTemplate : {<< Lit("foo") >>, << Lit("foo_"), Tok("SECRET") >>,
                   << Lit("foo_"), Tok("pod") >>},
     additionalEnv : {NoMap, [x \in {"pod"} |-> "pod1"]},
     endpointTag : TagValueTemplates,
     metricTag : TagValueTemplates,
     globalTag : {<< Lit("v") >>, << Tok("SECRET") >>, << Tok("METRIC:id") >>}]

\* one cycle and its definition in the OS environment os: the metric foo with
\* one datapoint without labels is collected, expanded and declared
RunIn(e, os) ==
    LET in == [metrics |-> [n \in {"foo"} |-> Listed("foo", e.idTemplate)],
               collected |-> << [ID |-> "foo", Type |-> "gauge", Tenant |-> "t1",
                                 Data |-> << Datapoint(1, NoMap) >>] >>,
               prefix |-> e.prefix, additionalEnv |-> e.additionalEnv,
               osEnv |-> os, declared |-> {}]
        out == ExpandCycle(in)
        id == CHOOSE x \in DOMAIN out.needed : TRUE
        def == [name |-> out.needed[id].Name, metricId |-> id,
                additionalEnv |-> e.additionalEnv, osEnv |-> os,
                endpointTags |-> [k \in {"e"} |-> e.endpointTag],
                metricTags |-> [k \in {"m"} |-> e.metricTag],
                globalTags |-> [k \in {"g"} |-> e.globalTag],
                description |-> "", units |-> ""]
    IN  [prefix |-> Render(Expand(e.prefix, PrefixMapping(in))),
         metricId |-> id,
         endpointTags |-> EndpointTags(def),
         metricTags |-> MetricTags(def),
         tags |-> AllMetricTags(def)]

InitEnv ==
    /\ cfg = RunConfig
    /\ fn \in [phase : {"env_in"}, in : EnvInputs, os1 : OSEnvs, os2 : OSEnvs]
    /\ InitState

\* the same cycle is run in each of the two OS environments
Worker_TwoRuns ==
    /\ fn.phase = "env_in"
    /\ fn' = [phase |-> "env_out", in |-> fn.in, os1 |-> fn.os1, os2 |-> fn.os2,
              run1 |-> RunIn(fn.in, fn.os1), run2 |-> RunIn(fn.in, fn.os2)]
    /\ UNCHANGED << cfg, DataPointsCollected, mgrVars, ticker, wk, sinkVars,
                    endpoints, crashed, histVars >>

SpecEnv == InitEnv /\ [][Worker_TwoRuns]_vars

\* ------------------------------- the order of the datapoints and the keys

\* the keys array as the loop over keysMap fills it: enum is the order in
\* which the map is iterated
KeysEnumerated(S, enum) == SelectSeq(enum, LAMBDA x : x \in S)

\* sort.Strings leaving the array as it is
SortStrings_AsFilled(keys) == keys

\* sort.Strings(keys) of an array of label keys
SortStrings(keys) == SortedKeys({keys[n] : n \in DOMAIN keys})

\* the id a metric is split by, the label keys being iterated in the order enum
SplitTemplateFrom(id, cm, enum) ==
    IF ~ContainsToken(id) /\ LabelKeys(cm) # {}
    THEN id \o << Lit("{") >>
            \o KeysString(SortStrings(KeysEnumerated(LabelKeys(cm), enum)), "")
            \o << Lit("}") >>
    ELSE id

\* the id template and the ids one collected metric is sent under, the label
\* keys being iterated in the order enum
MetricIds(in, cm, enum) ==
    LET l == LookupMetric(in.metrics, cm)
        id == SplitTemplateFrom(PrefixedId(in, l.mm), cm, enum)
    IN  [template |-> Render(id),
         ids |-> IF ~l.ok THEN {}
                 ELSE IF ContainsToken(id)
                 THEN {Render(Expand(id, LabelMapping(in, cm.Data[j]))) :
                          j \in DOMAIN cm.Data}
                 ELSE {Render(id)}]

\* the labels a datapoint can have
LabelChoices ==
    { NoMap, LabelK("a"), LabelK("b"), LabelM("x"), Merge(LabelK("a"), LabelM("x")) }

\* the orders in which a map with the keys k and m can be iterated
KeyEnumerations == { << "k", "m" >>, << "m", "k" >> }

\* the permutations of the positions of a list
OrdersOf(n) ==
    { f \in [1..n -> 1..n] : \A a, b \in 1..n : f[a] = f[b] => a = b }

\* the inputs of the comparison: the labels of two or three datapoints, a
\* permutation of the datapoints, two iteration orders of the keys, a listed
\* metric without a token or no list, a prefix
OrderInputs ==
    { [labels |-> l, perm |-> f, enum1 |-> e1, enum2 |-> e2,
       metrics |-> m, prefix |-> p] :
         l \in [1..2 -> LabelChoices] \cup [1..3 -> LabelChoices],
         f \in OrdersOf(2) \cup OrdersOf(3),
         e1 \in KeyEnumerations, e2 \in KeyEnumerations,
         m \in {NoMap, [n \in {"bar"} |-> Listed("bar", << Lit("bar") >>)]},
         p \in {<< >>, << Lit("p_") >>} }

InitOrder ==
    /\ cfg = RunConfig
    /\ fn \in { [phase |-> "order_in", in |-> o] :
                  o \in {x \in OrderInputs : DOMAIN x.perm = DOMAIN x.labels} }
    /\ InitState

\* the same metric expanded in two cycles: its datapoints come in another
\* order and its label keys are iterated in another order
Worker_ExpandReordered ==
    /\ fn.phase = "order_in"
    /\ LET o == fn.in
           in == [metrics |-> o.metrics, prefix |-> o.prefix,
                  additionalEnv |-> NoMap, osEnv |-> NoMap]
           cm1 == [ID |-> "bar", Type |-> "gauge", Tenant |-> "t1",
                   Data |-> [j \in DOMAIN o.labels |-> Datapoint(j, o.labels[j])]]
           cm2 == [cm1 EXCEPT !.Data = [j \in DOMAIN o.labels |->
                                           cm1.Data[o.perm[j]]]]
       IN  fn' = [phase |-> "order_out", in |-> o,
                  first |-> MetricIds(in, cm1, o.enum1),
                  second |-> MetricIds(in, cm2, o.enum2)]
    /\ UNCHANGED << cfg, DataPointsCollected, mgrVars, ticker, wk, sinkVars,
                    endpoints, crashed, histVars >>

SpecOrder == InitOrder /\ [][Worker_ExpandReordered]_vars

\* ------------------------------------------- the type of a definition

\* the details an adapter can return for one metric name: none, or one with
\* any type, the empty one included, and with or without a description
DetailsOf(name) ==
    {{}} \cup { {[Name |-> name, MetricType |-> t, Description |-> d]} :
                   t \in {"", Gauge, "counter"}, d \in {"", "by adapter"} }

\* the inputs of the type of a definition: the monitored metric bar with any
\* declared type, whether CollectMetricDetails failed, and the details of
\* foo and bar it returned
TypeInputs ==
    { [mm |-> [Name |-> "bar", Type |-> t, Description |-> d],
       detailsErr |-> e, details |-> f \cup b] :
         t \in {"", Gauge, "counter"}, d \in {"", "by config"},
         e \in BOOLEAN, f \in DetailsOf("foo"), b \in DetailsOf("bar") }

InitType ==
    /\ cfg = RunConfig
    /\ fn \in { [phase |-> "type_in", in |-> x] : x \in TypeInputs }
    /\ InitState

\* createMetricDefinition finds the details of the metric and picks the type
\* and the description of its definition
CreateMetricDefinition_Type ==
    /\ fn.phase = "type_in"
    /\ LET d == FindDetails(fn.in.mm.Name,
                            IF fn.in.detailsErr THEN {} ELSE fn.in.details)
       IN  fn' = [phase |-> "type_out", in |-> fn.in,
                  def |-> [Type |-> MetricType(fn.in.mm, d),
                           Description |-> MetricDescription(fn.in.mm, d)]]
    /\ UNCHANGED << cfg, DataPointsCollected, mgrVars, ticker, wk, sinkVars,
                    endpoints, crashed, histVars >>

SpecType == InitType /\ [][CreateMetricDefinition_Type]_vars

\* ------------------------------------------ the fixed tags of a definition

\* the inputs of the fixed tags: the description the metric is configured
\* with, the description in the details of the adapter, the units symbol, and
\* the three tag layers
FixedTagInputs ==
    { [configured |-> c, detailed |-> d, units |-> u,
       endpointTags |-> e, metricTags |-> m, globalTags |-> g] :
         c \in {"", "by config"}, d \in {"", "by adapter"}, u \in {"", "ms"},
         e \in LayerTags("endpoint"), m \in LayerTags("metric"),
         g \in LayerTags("global") }

InitFixedTags ==
    /\ cfg = RunConfig
    /\ fn \in { [phase |-> "fixed_in", in |-> x] : x \in FixedTagInputs }
    /\ InitState

\* createMetricDefinition resolves the description and makes the tags
CreateMetricDefinition_FixedTags ==
    /\ fn.phase = "fixed_in"
    /\ LET mm == [Name |-> "bar", Type |-> "", Description |-> fn.in.configured]
           detail == [Name |-> "bar", MetricType |-> "",
                      Description |-> fn.in.detailed]
           description == MetricDescription(mm, detail)
       IN  fn' = [phase |-> "fixed_out", in |-> fn.in,
                  tags |-> AllMetricTags(
                     [name |-> "bar", metricId |-> "bar", additionalEnv |-> NoMap,
                      osEnv |-> NoMap, endpointTags |-> fn.in.endpointTags,
                      metricTags |-> fn.in.metricTags,
                      globalTags |-> fn.in.globalTags,
                      description |-> description, units |-> fn.in.units])]
    /\ UNCHANGED << cfg, DataPointsCollected, mgrVars, ticker, wk, sinkVars,
                    endpoints, crashed, histVars >>

SpecFixedTags == InitFixedTags /\ [][CreateMetricDefinition_FixedTags]_vars

\* ------------------------------------------------- the static endpoints

\* the endpoints of the static list: the type and the URL make the id;
\* creatable says whether CreateMetricsCollector returns a collector for it
StaticEndpoints ==
    [Type : {"prometheus", "jolokia"}, URL : {"http://h/m"},
     creatable : BOOLEAN, enabled : BOOLEAN]

\* fmt.Sprintf("X|X|%v|%v", e.Type, e.URL)
EndpointId(e) == "X|X|" \o e.Type \o "|" \o e.URL

StaticIds == { EndpointId(e) : e \in StaticEndpoints }

\* the collector CreateMetricsCollector makes for an endpoint
CollectorOf(e) == [id |-> EndpointId(e), enabled |-> e.enabled, interval |-> "1s"]

\* the endpoints of a list that get a ticker
Startable(l) == {n \in DOMAIN l : l[n].creatable /\ l[n].enabled}

\* the static lists: nil, and lists of one to MaxCalls endpoints of which at
\* most MaxTickers get a ticker
EndpointLists ==
    { l \in UNION { [1..n -> StaticEndpoints] : n \in 0..MaxCalls } :
         Cardinality(Startable(l)) <= MaxTickers }

\* the manager before StartCollectingEndpoints is called with a list
InitEndpoints ==
    /\ cfg = RunConfig
    /\ fn \in { [phase |-> "endpoints", list |-> l] : l \in EndpointLists }
    /\ Tickers = [i \in StaticIds |-> NoTicker]
    /\ TickersLock = NoCaller
    /\ call = [t \in Callers |-> IdleCall]
    /\ ticker = [k \in TickerIds |-> NewTickerObj]
    /\ wk = [k \in TickerIds |-> NewWorker]
    /\ metricsChan = << >>
    /\ metricDefsChan = << >>
    /\ endpoints = [i \in StaticIds |-> ""]
    /\ crashed = FALSE
    /\ DataPointsCollected = 0
    /\ calls = 0
    /\ dataSent = [k \in TickerIds |-> 0]
    /\ dataIds = [k \in TickerIds |-> {}]
    /\ defsSent = [k \in TickerIds |-> << >>]
    /\ scrapedOk = [k \in TickerIds |-> FALSE]

\* the endpoint the loop of StartCollectingEndpoints is at: calls counts the
\* endpoints it is done with or has called StartCollecting for
AtEndpoint(t) ==
    /\ fn.phase = "endpoints"
    /\ call[t].pc = "idle"
    /\ calls < Len(fn.list)

\* StartCollectingEndpoints_CreateFailed leaving the loop at the failure
StartCollectingEndpoints_CreateFailed_Returns(t) ==
    /\ ~crashed
    /\ AtEndpoint(t)
    /\ ~fn.list[calls + 1].creatable
    /\ endpoints' = SetEndpoint(endpoints, EndpointId(fn.list[calls + 1]),
                                "WILLNOTSTART")
    /\ calls' = Len(fn.list)
    /\ UNCHANGED << cfg, fn, DataPointsCollected, Tickers, TickersLock, call, ticker, wk, sinkVars,
                    crashed, histVars >>

\* StartCollectingEndpoints: CreateMetricsCollector fails for the endpoint,
\* SetEndpoint(id, "Will not start collecting ..."), on to the next endpoint
StartCollectingEndpoints_CreateFailed(t) ==
    /\ ~crashed
    /\ AtEndpoint(t)
    /\ ~fn.list[calls + 1].creatable
    /\ endpoints' = SetEndpoint(endpoints, EndpointId(fn.list[calls + 1]),
                                "WILLNOTSTART")
    /\ calls' = calls + 1
    /\ UNCHANGED << cfg, fn, DataPointsCollected, Tickers, TickersLock, call, ticker, wk, sinkVars,
                    crashed, histVars >>

\* StartCollectingEndpoints: mcm.StartCollecting(c) for the collector of the
\* endpoint; the loop goes on when the call has returned
StartCollectingEndpoints_Start(t) ==
    /\ AtEndpoint(t)
    /\ fn.list[calls + 1].creatable
    /\ LET c == CollectorOf(fn.list[calls + 1])
       IN  StartCollecting_Disabled(t, c) \/ StartCollecting_Begin(t, c)

\* the start-up goroutine runs StartCollectingEndpoints, the workers it
\* starts run beside it
NextEndpoints ==
    \/ StartCollectingEndpoints_CreateFailed("c1")
    \/ StartCollectingEndpoints_Start("c1")
    \/ StopCollecting_SetEndpoint("c1")
    \/ StartCollecting_Status("c1")
    \/ StartCollecting_Lock("c1")
    \/ StartCollecting_Create("c1")
    \/ Background

SpecEndpoints == InitEndpoints /\ [][NextEndpoints]_vars

\* ------------------------------------------- the interval of a collector

InitChosen ==
    /\ cfg \in Configs
    /\ fn \in { [phase |-> "interval_in", interval |-> s] : s \in DurationStrings }
    /\ InitState

\* StartCollecting determines the collection interval of a collector
StartCollecting_Interval ==
    /\ fn.phase = "interval_in"
    /\ LET c == [id |-> "a", enabled |-> TRUE, interval |-> fn.interval]
       IN  fn' = [phase |-> "interval_out", interval |-> fn.interval,
                  chosen |-> ChosenInterval(c, cfg),
                  collectionInterval |-> EffectiveInterval(c, cfg)]
    /\ UNCHANGED << cfg, DataPointsCollected, mgrVars, ticker, wk, sinkVars,
                    endpoints, crashed, histVars >>

SpecChosen == InitChosen /\ [][StartCollecting_Interval]_vars

\* --------------------------------------------- one scheduler and the clock

\* the seconds the clock runs for
MaxTime == 100

\* the interval of the ticker of an endpoint that asks for one second
TickerInterval ==
    EffectiveInterval([id |-> "a", enabled |-> TRUE, interval |-> "1s"], RunConfig)

\* no cycle has started yet
Never == 0 - 1

\* the scheduler right after StartCollecting at time zero: the ticker sends
\* its first tick one interval later, the worker waits for it
InitTimed ==
    /\ cfg = RunConfig
    /\ fn = [phase |-> "timed", now |-> 0, next |-> TickerInterval,
             pending |-> FALSE, pc |-> "wait", started |-> Never,
             before |-> Never]
    /\ InitState

\* a second passes; the clock does not pass the time of a tick before the
\* ticker has sent it, and a worker that waits takes a tick as soon as
\* ticker.C has one
Timed_Second ==
    /\ fn.phase = "timed"
    /\ fn.now < MaxTime
    /\ fn.now < fn.next
    /\ ~(fn.pc = "wait" /\ fn.pending)
    /\ fn' = [fn EXCEPT !.now = @ + 1]
    /\ UNCHANGED << cfg, DataPointsCollected, mgrVars, ticker, wk, sinkVars,
                    endpoints, crashed, histVars >>

\* the ticker sends a tick at its time: ticker.C keeps it when it is empty
\* and the tick is dropped when it is not
Timed_Tick ==
    /\ fn.phase = "timed"
    /\ fn.now = fn.next
    /\ fn' = [fn EXCEPT !.pending = TRUE, !.next = @ + TickerInterval]
    /\ UNCHANGED << cfg, DataPointsCollected, mgrVars, ticker, wk, sinkVars,
                    endpoints, crashed, histVars >>

\* for _ = range ticker.C: the worker takes the tick and starts a cycle;
\* started and before are the times its last two cycles started (history)
Timed_Receive ==
    /\ fn.phase = "timed"
    /\ fn.pc = "wait"
    /\ fn.pending
    /\ fn' = [fn EXCEPT !.pending = FALSE, !.pc = "cycle",
                        !.started = fn.now, !.before = fn.started]
    /\ UNCHANGED << cfg, DataPointsCollected, mgrVars, ticker, wk, sinkVars,
                    endpoints, crashed, histVars >>

\* the cycle ends, at once or any time later: the adapter has answered and the
\* sink has received
Timed_Finish ==
    /\ fn.phase = "timed"
    /\ fn.pc = "cycle"
    /\ fn' = [fn EXCEPT !.pc = "wait"]
    /\ UNCHANGED << cfg, DataPointsCollected, mgrVars, ticker, wk, sinkVars,
                    endpoints, crashed, histVars >>

NextTimed == Timed_Second \/ Timed_Tick \/ Timed_Receive \/ Timed_Finish

SpecTimed == InitTimed /\ [][NextTimed]_vars

\* ------------------------------------------------------------------ claims

\* the worker of ticker k can still receive a tick and begin a scrape cycle:
\* the ticker still sends ticks, or a tick is waiting in ticker.C
CanBeginCycle(k) ==
    /\ wk[k].pc \notin {"none", "done"}
    /\ ~ticker[k].stopped \/ ticker[k].pending

InCycle(k) == wk[k].pc \in {"scrape", "send", "details", "senddefs", "finish"}
Live(i) == {k \in Created : ticker[k].id = i /\ ~ticker[k].stopped}

\* C1: in every reachable state, under any interleaving of manager calls, an
\* endpoint id has at most one ticker that was created and not stopped, and
\* that ticker is the one the Tickers table stores under the id.
C1_OneLiveTickerPerId ==
    \A i \in Ids : \A k \in Live(i) : Tickers[i] = k

\* C2: with manager calls one at a time, the step of StartCollecting that
\* creates the new ticker finds no table entry for the id and every earlier
\* ticker of the id stopped; after it the table holds the new ticker, which has
\* not ticked, and it is the only ticker of the id that is not stopped.
C2_ReplacementStopsOldFirst ==
    [][\A t \in Callers :
          (call[t].pc = "start_create" /\ call'[t].pc = "idle" /\ ~crashed')
          => LET i == call[t].col.id
             IN  /\ Tickers[i] = NoTicker
                 /\ Live(i) = {}
                 /\ Tickers'[i] \in TickerIds \ Created
                 /\ ticker'[Tickers'[i]].created
                 /\ ~ticker'[Tickers'[i]].stopped
                 /\ ~ticker'[Tickers'[i]].pending
                 /\ wk'[Tickers'[i]].pc = "wait"
                 /\ \A k \in TickerIds :
                       (ticker'[k].created /\ ticker'[k].id = i
                        /\ ~ticker'[k].stopped) => k = Tickers'[i]
                 /\ \A j \in Ids \ {i} : Tickers'[j] = Tickers[j]]_vars

\* C2 witness: a StartCollecting call that found and stopped an old ticker of
\* its id is about to create the new one.
C2_Witness ==
    \E t \in Callers :
        /\ call[t].op = "start"
        /\ call[t].pc = "start_create"
        /\ call[t].found # {}
        /\ \A k \in call[t].found : ticker[k].stopped

\* C3: for every endpoint id at most one scrape cycle is in progress at any
\* time, also when the scheduler of the id is replaced while a scrape is in
\* flight.
C3_OneCyclePerId ==
    \A k1, k2 \in Created :
        (k1 # k2 /\ ticker[k1].id = ticker[k2].id)
        => ~(InCycle(k1) /\ InCycle(k2))

\* C4 as stated: for each scheduler every final metric id appears in at most
\* one batch pushed to the definition channel.
C4_EachIdInOneBatch ==
    \A k \in TickerIds : \A m, n \in DOMAIN defsSent[k] :
        m # n => defsSent[k][m].ids \cap defsSent[k][n].ids = {}

\* C4 as amended: for each scheduler, an id pushed in a batch whose
\* metric-details fetch succeeded appears in no later batch; only an id whose
\* every earlier batch followed a failed details fetch is pushed again.
C4_DeclaredIdNeverPushedAgain ==
    \A k \in TickerIds : \A m, n \in DOMAIN defsSent[k] :
        (m < n /\ defsSent[k][m].detailsOk)
        => defsSent[k][m].ids \cap defsSent[k][n].ids = {}

\* C4 witness: a scheduler declared foo in a first cycle and, in a second
\* cycle that emitted foo again, pushed only the ids that were new.
C4_Witness ==
    \E k \in TickerIds :
        /\ Len(defsSent[k]) = 2
        /\ defsSent[k][1].ids = {"foo"} /\ defsSent[k][1].detailsOk
        /\ defsSent[k][2].ids = {"bar_a", "bar_b"}

\* C5: a scheduler whose CollectMetrics calls have all failed has pushed
\* nothing to either channel; a failed scrape changes only that worker's
\* position and its id's status entry; and a worker inside a cycle can always
\* take its next step, or waits only for the sink to receive from the channel
\* it sends on, whatever the other schedulers' adapters do.
C5_Isolation ==
    /\ [](\A k \in TickerIds :
            (dataSent[k] > 0 \/ defsSent[k] # << >>) => scrapedOk[k])
    /\ [][\A k \in TickerIds :
            (wk[k].pc = "scrape" /\ wk'[k].pc = "wait")
            => /\ \A j \in TickerIds \ {k} : wk'[j] = wk[j]
               /\ \A i \in Ids \ {ticker[k].id} : endpoints'[i] = endpoints[i]
               /\ UNCHANGED << ticker, Tickers, metricsChan, metricDefsChan,
                               dataSent, dataIds, defsSent, scrapedOk >>]_vars
    /\ [](\A k \in TickerIds :
            InCycle(k)
            => \/ ENABLED WorkerStep(k)
               \/ wk[k].pc = "send" /\ ENABLED Sink_Metrics
               \/ wk[k].pc = "senddefs" /\ ENABLED Sink_Defs)

\* C5 witness: one scheduler has failed its scrape and pushed nothing while a
\* scheduler of another id has pushed datapoints and definitions.
C5_Witness ==
    \E a, b \in Created :
        /\ ticker[a].id # ticker[b].id
        /\ wk[a].cycles > 0 /\ wk[a].pc = "wait" /\ ~scrapedOk[a]
        /\ endpoints[ticker[a].id] = "FAILED"
        /\ dataSent[a] = 0 /\ defsSent[a] = << >>
        /\ dataSent[b] > 0 /\ defsSent[b] # << >>

\* C6: whenever the configured minimum interval parses, every ticker that
\* StartCollecting created has an interval of at least that minimum.
C6_IntervalClamp ==
    \A k \in Created :
        ParseDuration(cfg.minimum).ok
        => ticker[k].interval >= ParseDuration(cfg.minimum).d

\* C6 witness: a ticker runs at the minimum because its endpoint asked for a
\* shorter interval.
C6_Witness ==
    \E k \in Created :
        /\ ParseDuration(cfg.minimum).ok
        /\ ParseDuration(wk[k].col.interval).ok
        /\ ParseDuration(wk[k].col.interval).d < ParseDuration(cfg.minimum).d
        /\ ticker[k].interval = ParseDuration(cfg.minimum).d

\* C7: the step on which StopCollecting(id) returns leaves no table entry for
\* id, the ticker it found stopped and the status entry of id cleared, ticker
\* found or not; a StopCollecting(id) that finds no entry changes neither the
\* table nor any ticker, and leaves a status registry without an entry for id
\* as it is.
C7_StopCollecting ==
    /\ [][\A t \in Callers :
            (call[t].pc = "stop_status" /\ call'[t].pc # "stop_status")
            => LET i == call[t].col.id
               IN  /\ Tickers'[i] = NoTicker
                   /\ \A k \in call[t].found : ticker'[k].stopped
                   /\ endpoints'[i] = ""
                   /\ \A j \in Ids \ {i} : endpoints'[j] = endpoints[j]
                   /\ endpoints[i] = "" => endpoints' = endpoints]_vars
    /\ [][\A t \in Callers :
            (call[t].pc = "idle" /\ call'[t].pc = "stop_status")
            => LET i == call'[t].col.id
               IN  /\ Tickers'[i] = NoTicker
                   /\ \A j \in Ids \ {i} : Tickers'[j] = Tickers[j]
                   /\ Tickers[i] # NoTicker
                      => (call'[t].found = {Tickers[i]}
                          /\ ticker'[Tickers[i]].stopped)
                   /\ Tickers[i] = NoTicker
                      => (Tickers' = Tickers /\ ticker' = ticker)]_vars

\* C7 witness: a StopCollecting call that found a running ticker under its id
\* has stopped it and is about to clear the status entry the worker wrote.
C7_Witness ==
    \E t \in Callers :
        /\ call[t].op = "stop"
        /\ call[t].pc = "stop_status"
        /\ call[t].found # {}
        /\ endpoints[call[t].col.id] = "OK"

\* C8: StopCollectingAll stops every ticker the table held and empties the
\* table, and the step on which it returns leaves the status registry without
\* any entry, the entries of ids that never had a ticker included.
C8_StopCollectingAll ==
    /\ [][\A t \in Callers :
            (call[t].pc = "idle" /\ call'[t].pc = "stopall_status")
            => /\ \A i \in Ids :
                     Tickers[i] # NoTicker
                     => (ticker'[Tickers[i]].stopped
                         /\ Tickers[i] \in call'[t].found)
               /\ \A i \in Ids : Tickers'[i] = NoTicker]_vars
    /\ [][\A t \in Callers :
            (call[t].pc = "stopall_status" /\ call'[t].pc = "idle")
            => /\ \A i \in Ids : Tickers'[i] = NoTicker
               /\ \A k \in call[t].found : ticker'[k].stopped
               /\ \A i \in Ids : endpoints'[i] = ""]_vars

\* C8 witness: StopCollectingAll has stopped a ticker and is about to clear a
\* registry that holds the entry of a disabled endpoint that never had one.
C8_Witness ==
    \E t \in Callers : \E i \in Ids :
        /\ call[t].pc = "stopall_status"
        /\ call[t].found # {}
        /\ endpoints[i] = "DISABLED"
        /\ \A k \in Created : ticker[k].id # i

\* C9: no manager call is at a status-registry update (SetEndpoint,
\* AddLogMessage, DeleteAllEndpoints) while it holds the TickersLock.
C9_NoStatusUpdateUnderLock ==
    \A t \in Callers :
        call[t].pc \in {"stop_status", "stopall_status", "start_status"}
        => TickersLock # t

C11_InFlightScrapeStillForwarded ==
    /\ [][(\E k \in TickerIds : ticker'[k].stopped /\ ~ticker[k].stopped)
          => UNCHANGED << wk, metricsChan, metricDefsChan >>]_vars
    /\ [](\A k \in TickerIds :
            ticker[k].stopped
            => /\ wk[k].pc = "scrape"
                  => ENABLED (\E r \in ScrapeResults : Worker_Scraped(k, r))
               /\ wk[k].pc = "send"
                  => (wk[k].tosend # << >>
                      /\ (ENABLED Worker_Send(k) \/ ENABLED Sink_Metrics))
               /\ wk[k].pc = "details"
                  => (wk[k].needed # {} /\ ENABLED Worker_Details(k))
               /\ wk[k].pc = "senddefs"
                  => (wk[k].needed # {}
                      /\ (ENABLED Worker_SendDefs(k) \/ ENABLED Sink_Defs)))
    /\ [][\A k \in TickerIds :
            (ticker[k].stopped /\ wk'[k] # wk[k])
            => /\ (wk[k].pc = "scrape" /\ scrapedOk'[k] /\ wk'[k].pc # "wait")
                  => (wk'[k].pc = "send" /\ wk'[k].tosend # << >>)
               /\ wk[k].pc = "send"
                  => /\ metricsChan' = Append(metricsChan, Head(wk[k].tosend))
                     /\ wk'[k].tosend = Tail(wk[k].tosend)
                     /\ wk'[k].pc = IF wk'[k].tosend # << >> THEN "send"
                                    ELSE IF wk[k].needed # {} THEN "details"
                                    ELSE "finish"
               /\ wk[k].pc = "details" => wk'[k].pc = "senddefs"
               /\ wk[k].pc = "senddefs"
                  => metricDefsChan' = Append(metricDefsChan, wk[k].needed)]_vars

\* C11 witness: the ticker was stopped and taken out of the table while its
\* worker was inside a cycle (the tick still in ticker.C was sent before the
\* stop and has not been received), and the worker is about to push the
\* result of that scrape.
C11_Witness ==
    \E k \in Created :
        /\ ticker[k].stopped /\ ticker[k].pending
        /\ Tickers[ticker[k].id] # k
        /\ wk[k].pc = "send"
        /\ wk[k].needed # {}

\* C12: under fair scheduling the worker of a stopped ticker that is in no
\* cycle, and has no tick left to receive, eventually leaves the tick-receive
\* loop and terminates.
C12_StoppedWorkerTerminates ==
    \A k \in TickerIds :
        (ticker[k].stopped /\ ~ticker[k].pending /\ wk[k].pc = "wait")
        ~> Terminated(k)

\* C13: with manager calls one at a time, in every state in which no manager
\* call is in progress an id is in the Tickers table exactly when a worker of
\* that id can still begin a scrape cycle.
C13_TableIffWorkerCanScrape ==
    AllIdle
    => \A i \in Ids :
          Tickers[i] # NoTicker
          <=> \E k \in Created : ticker[k].id = i /\ CanBeginCycle(k)

\* C14: the step on which CollectMetrics returns an error sets the status
\* entry of the worker's id to the failure message and changes nothing else
\* but the worker's position: no channel, no counter, no declared set, no
\* other status entry, no ticker and no table entry; the worker is back at
\* the tick receive, and receives the next tick as soon as there is one.
C14_ScrapeErrorOnlySetsStatus ==
    /\ [][\A k \in TickerIds :
            (wk[k].pc = "scrape" /\ wk'[k].pc = "wait")
            => /\ endpoints'[ticker[k].id] = "FAILED"
               /\ \A i \in Ids \ {ticker[k].id} : endpoints'[i] = endpoints[i]
               /\ wk' = [wk EXCEPT ![k].pc = "wait"]
               /\ UNCHANGED << metricsChan, metricDefsChan, DataPointsCollected,
                               Tickers, TickersLock, ticker, call, dataSent, dataIds,
                               defsSent, scrapedOk, crashed >>]_vars
    /\ [](\A k \in TickerIds :
            (wk[k].pc = "wait" /\ ticker[k].pending /\ CyclesRun < MaxCycles)
            => ENABLED Worker_Receive(k))

\* C14 witness: a worker whose first scrape failed is in the table, has pushed
\* and counted nothing, and is inside CollectMetrics again on the next tick.
C14_Witness ==
    \E k \in Created :
        /\ wk[k].cycles = 2 /\ wk[k].pc = "scrape"
        /\ ~scrapedOk[k]
        /\ endpoints[ticker[k].id] = "FAILED"
        /\ Tickers[ticker[k].id] = k
        /\ dataSent[k] = 0 /\ defsSent[k] = << >>
        /\ DataPointsCollected = 0

\* C15: when CollectMetricDetails fails, the status entry of the id gets the
\* message and the needed ids stay as they are; the batch is still sent on
\* the definition channel, one definition per needed id with the declared type
\* (gauge when none is declared) and the declared description; the declared
\* set is left as it is; and every later successful scrape needs again each
\* emitted id that is not declared, an id being declared only when a batch
\* with it was sent after a successful details call.
C15_DetailsFailureStillDeclares ==
    /\ [][\A k \in TickerIds :
            (wk[k].pc = "details" /\ wk'[k].pc = "senddefs" /\ wk'[k].detailsErr)
            => /\ endpoints'[ticker[k].id] = "NODETAILS"
               /\ wk'[k].needed = wk[k].needed
               /\ wk'[k].declared = wk[k].declared]_vars
    /\ [][\A k \in TickerIds :
            (wk[k].pc = "senddefs" /\ wk[k].detailsErr /\ wk'[k] # wk[k])
            => /\ metricDefsChan' = Append(metricDefsChan, wk[k].needed)
               /\ Len(defsSent'[k]) = Len(defsSent[k]) + 1
               /\ LET b == defsSent'[k][Len(defsSent'[k])]
                  IN  /\ b.ids = wk[k].needed /\ ~b.detailsOk
                      /\ DOMAIN b.defs = wk[k].needed
                      /\ \A id \in wk[k].needed :
                            LET mm == MonitoredMetrics[NameOf(id)]
                            IN  /\ b.defs[id].Type =
                                      (IF mm.Type = "" THEN Gauge ELSE mm.Type)
                                /\ b.defs[id].Description = mm.Description
               /\ wk'[k].declared = wk[k].declared
               /\ wk'[k].pc = "finish"]_vars
    /\ [](\A k \in TickerIds :
            (wk[k].pc = "senddefs" /\ wk[k].detailsErr)
            => (wk[k].needed # {}
                /\ (ENABLED Worker_SendDefs(k) \/ ENABLED Sink_Defs)))
    /\ [](\A k \in TickerIds : \A id \in wk[k].declared :
            \E m \in DOMAIN defsSent[k] :
                defsSent[k][m].detailsOk /\ id \in defsSent[k][m].ids)
    /\ [][\A k \in TickerIds :
            (wk[k].pc = "scrape" /\ wk'[k].pc = "send")
            => wk'[k].needed =
                  UNION {wk'[k].tosend[n] : n \in DOMAIN wk'[k].tosend}
                  \ wk[k].declared]_vars

\* C15 witness: a scheduler sent a batch after a failed details call and, in
\* its next cycle, sent the same ids again.
C15_Witness ==
    \E k \in TickerIds :
        /\ Len(defsSent[k]) = 2
        /\ ~defsSent[k][1].detailsOk
        /\ defsSent[k][1].ids # {}
        /\ defsSent[k][1].ids \subseteq defsSent[k][2].ids

\* C16: a worker that has a batch to send and finds the channel full takes no
\* step until the sink has received; a batch leaves the worker only by being
\* appended to the datapoint channel, the needed definitions only by being
\* appended to the definition channel; a cycle ends only when all of its
\* batches were sent; and a tick is received only by a worker that is in no
\* cycle and has nothing left to send.
C16_BlockingPushes ==
    /\ [](\A k \in TickerIds :
            /\ (wk[k].pc = "send" /\ Len(metricsChan) >= ChanCap)
               => (~ENABLED WorkerStep(k) /\ ENABLED Sink_Metrics)
            /\ (wk[k].pc = "senddefs" /\ Len(metricDefsChan) >= ChanCap)
               => (~ENABLED WorkerStep(k) /\ ENABLED Sink_Defs)
            /\ wk[k].pc \in {"details", "senddefs", "finish", "wait"}
               => wk[k].tosend = << >>
            /\ wk[k].pc \in {"finish", "wait"}
               => (wk[k].needed = {} \/ Len(defsSent[k]) > 0))
    /\ [](Len(metricsChan) <= ChanCap /\ Len(metricDefsChan) <= ChanCap)
    /\ [][\A k \in TickerIds :
            /\ (wk[k].pc = "send" /\ wk'[k] # wk[k])
               => /\ metricsChan' = Append(metricsChan, Head(wk[k].tosend))
                  /\ wk'[k].tosend = Tail(wk[k].tosend)
            /\ (wk[k].pc = "senddefs" /\ wk'[k] # wk[k])
               => metricDefsChan' = Append(metricDefsChan, wk[k].needed)
            /\ (ticker[k].pending /\ ~ticker'[k].pending)
               => (wk[k].pc = "wait" /\ wk[k].tosend = << >>
                   /\ wk'[k].pc = "scrape")]_vars
    /\ [][/\ Len(metricsChan') < Len(metricsChan)
             => metricsChan' = Tail(metricsChan)
          /\ Len(metricDefsChan') < Len(metricDefsChan)
             => metricDefsChan' = Tail(metricDefsChan)]_vars

\* C16 witness: a worker with a batch to send waits on a full datapoint
\* channel while its next tick is already in ticker.C.
C16_Witness ==
    \E k \in Created :
        /\ wk[k].pc = "send"
        /\ Len(wk[k].tosend) = 2
        /\ Len(metricsChan) = ChanCap
        /\ ticker[k].pending

\* the metric layer as the builder makes it: the custom metric tags with the
\* fixed tags description and units laid over when they are not empty
C17_MetricLayer(in) ==
    [k \in DOMAIN in.metricTags
            \cup (IF in.description # "" THEN {"description"} ELSE {})
            \cup (IF in.units # "" THEN {"units"} ELSE {}) |->
        IF k = "description" /\ in.description # "" THEN in.description
        ELSE IF k = "units" /\ in.units # "" THEN in.units
        ELSE Render(in.metricTags[k])]

\* C17 as stated: for every tag key the definition carries the global value
\* when the global tags define the key, otherwise the value of the metric
\* tags when they define it, otherwise the value of the endpoint tags; a key
\* that any layer defines is present.
C17_GlobalOverMetricOverEndpoint ==
    fn.phase = "tags_out"
    => \A k \in TagKeys :
          IF k \in DOMAIN fn.in.globalTags
          THEN k \in DOMAIN fn.tags /\ fn.tags[k] = Render(fn.in.globalTags[k])
          ELSE IF k \in DOMAIN fn.in.metricTags
          THEN k \in DOMAIN fn.tags /\ fn.tags[k] = Render(fn.in.metricTags[k])
          ELSE k \in DOMAIN fn.in.endpointTags
               => (k \in DOMAIN fn.tags
                   /\ fn.tags[k] = Render(fn.in.endpointTags[k]))

\* C17 as amended: the same with the metric layer being the metric tags
\* overridden by the fixed tags description (when the description is not
\* empty) and units (when the units symbol is not empty); the keys of the
\* result are exactly the keys of the three layers.
C17_GlobalOverMetricWithFixedOverEndpoint ==
    fn.phase = "tags_out"
    => /\ DOMAIN fn.tags = DOMAIN fn.in.globalTags
                             \cup DOMAIN C17_MetricLayer(fn.in)
                             \cup DOMAIN fn.in.endpointTags
       /\ \A k \in DOMAIN fn.tags :
             fn.tags[k] =
                IF k \in DOMAIN fn.in.globalTags THEN Render(fn.in.globalTags[k])
                ELSE IF k \in DOMAIN C17_MetricLayer(fn.in)
                THEN C17_MetricLayer(fn.in)[k]
                ELSE Render(fn.in.endpointTags[k])

\* C17 witness: the tags were made for a metric with a description, env is
\* defined by all three layers and carries the global value, description is
\* defined by the endpoint and the metric tags and carries the description.
C17_Witness ==
    /\ fn.phase = "tags_out"
    /\ "env" \in DOMAIN fn.in.globalTags \cap DOMAIN fn.in.metricTags
                 \cap DOMAIN fn.in.endpointTags
    /\ fn.tags["env"] = "global"
    /\ "description" \in (DOMAIN fn.in.metricTags \cap DOMAIN fn.in.endpointTags)
                             \ DOMAIN fn.in.globalTags
    /\ fn.in.description = "described"
    /\ fn.tags["description"] = "described"

\* C18 as stated: two runs that differ only in the OS environment give the
\* same metric id whenever they give the same expanded prefix, and the same
\* endpoint tags and metric tags.
C18_PodTemplatesIgnoreOSEnv ==
    fn.phase = "env_out"
    => /\ fn.run1.prefix = fn.run2.prefix => fn.run1.metricId = fn.run2.metricId
       /\ fn.run1.endpointTags = fn.run2.endpointTags
       /\ fn.run1.metricTags = fn.run2.metricTags

\* C18 as amended: two runs that differ only in the OS environment give the
\* same metric id, endpoint tags and metric tags whenever they give the same
\* expanded prefix; an endpoint or metric tag differs between the runs only
\* when it uses ${METRIC:id}, the id that starts with the expanded prefix.
C18_OSEnvOnlyThroughPrefix ==
    fn.phase = "env_out"
    => /\ fn.run1.prefix = fn.run2.prefix
          => /\ fn.run1.metricId = fn.run2.metricId
             /\ fn.run1.endpointTags = fn.run2.endpointTags
             /\ fn.run1.metricTags = fn.run2.metricTags
       /\ fn.in.endpointTag # << Tok("METRIC:id") >>
          => fn.run1.endpointTags = fn.run2.endpointTags
       /\ fn.in.metricTag # << Tok("METRIC:id") >>
          => fn.run1.metricTags = fn.run2.metricTags

\* C18 witness: the OS environments give SECRET two values, the id template
\* and the endpoint tag of the pod ask for ${SECRET} and get nothing in both
\* runs, while the global tag ${SECRET} gets the value of each run.
C18_Witness ==
    /\ fn.phase = "env_out"
    /\ "SECRET" \in DOMAIN fn.os1 \cap DOMAIN fn.os2
    /\ fn.os1["SECRET"] # fn.os2["SECRET"]
    /\ fn.in.prefix = << Lit("p_") >>
    /\ fn.in.idTemplate = << Lit("foo_"), Tok("SECRET") >>
    /\ fn.in.endpointTag = << Tok("SECRET") >>
    /\ fn.in.globalTag = << Tok("SECRET") >>
    /\ fn.run1.metricId = "p_foo_" /\ fn.run2.metricId = "p_foo_"
    /\ fn.run1.endpointTags["e"] = "" /\ fn.run2.endpointTags["e"] = ""
    /\ fn.run1.tags["g"] = fn.os1["SECRET"]
    /\ fn.run2.tags["g"] = fn.os2["SECRET"]

\* the series a cycle sent for the collected metric at position i, as pairs
\* of batch and position in the batch
C19_SeriesOf(out, i) ==
    {p \in UNION {{<< b, j >> : j \in DOMAIN out.batches[b]} :
                     b \in DOMAIN out.batches} :
        out.batches[p[1]][p[2]].from = i}

\* the endpoint lists no metric, or lists the name of this collected metric
C19_Listed(in, i) ==
    DOMAIN in.metrics = {} \/ in.collected[i].ID \in DOMAIN in.metrics

C20_Value(tgs, key) == IF key \in DOMAIN tgs THEN tgs[key] ELSE ""

\* k1=v1,k2=v2 for the label keys S, in lexicographic order, and the labels of
\* one datapoint
C20_Labels(S, tgs) ==
    IF S = {"k"} THEN "k=" \o C20_Value(tgs, "k")
    ELSE IF S = {"m"} THEN "m=" \o C20_Value(tgs, "m")
    ELSE "k=" \o C20_Value(tgs, "k") \o ",m=" \o C20_Value(tgs, "m")

\* C20: a collected metric that is not dropped, whose id after the prefix and
\* token expansion has no token and of which a datapoint has a label, is sent
\* as one batch with one series per datapoint, in the order of the
\* datapoints: each series holds that datapoint alone, has the tenant and the
\* type of the collected metric and the id <id>{k1=v1,k2=v2}, the keys being
\* the sorted label keys of all datapoints of the metric and the values the
\* datapoint's (empty for a key the datapoint does not have); the metric has
\* no other series.
C20_SplitByLabels ==
    fn.phase = "expand_out"
    => \A i \in DOMAIN fn.in.collected :
          LET cm == fn.in.collected[i]
              mm == IF DOMAIN fn.in.metrics = {}
                    THEN [ID |-> << Lit(cm.ID) >>] ELSE fn.in.metrics[cm.ID]
              base == Expand(fn.in.prefix, PrefixMapping(fn.in))
                      \o Expand(mm.ID, IdMapping(fn.in))
              keys == UNION {DOMAIN cm.Data[j].Tags : j \in DOMAIN cm.Data}
          IN  (C19_Listed(fn.in, i) /\ ~ContainsToken(base) /\ keys # {})
              => \E b \in DOMAIN fn.out.batches :
                    /\ fn.out.batches[b] =
                          [j \in DOMAIN cm.Data |->
                              [Tenant |-> cm.Tenant, Type |-> cm.Type,
                               Data |-> << cm.Data[j] >>,
                               ID |-> Render(base) \o "{"
                                      \o C20_Labels(keys, cm.Data[j].Tags) \o "}",
                               from |-> i]]
                    /\ \A p \in C19_SeriesOf(fn.out, i) : p[1] = b

\* C20 witness: bar, listed with the id bar, was collected with label m on
\* one datapoint and label k on the other, and was sent as two series with
\* both keys in their ids.
C20_Witness ==
    /\ fn.phase = "expand_out"
    /\ fn.in.prefix = << Lit("p_") >>
    /\ "bar" \in DOMAIN fn.in.metrics
    /\ fn.in.metrics["bar"].ID = << Lit("bar") >>
    /\ Len(fn.in.collected) = 1
    /\ fn.in.collected[1].ID = "bar"
    /\ fn.in.collected[1].Type = "counter"
    /\ Len(fn.out.batches) = 2
    /\ Len(fn.out.batches[1]) = 2
    /\ fn.out.batches[1][1].ID = "p_bar{k=,m=x}"
    /\ fn.out.batches[1][2].ID = "p_bar{k=a,m=}"
    /\ fn.out.batches[1][1].Type = "counter"
    /\ fn.out.batches[2] = << >>

\* the string of an id template whose tokens are resolved by the additional
\* environment first and by the labels of one datapoint then, a token that
\* neither has giving the empty string
RECURSIVE C21_Id(_, _, _)
C21_Id(t, env, tgs) ==
    IF t = << >> THEN ""
    ELSE (IF ~IsTok(Head(t)) THEN Head(t).lit
          ELSE IF Head(t).tok \in DOMAIN env THEN env[Head(t).tok]
          ELSE C20_Value(tgs, Head(t).tok))
         \o C21_Id(Tail(t), env, tgs)

\* C21: a collected metric that is listed with an id template holding a token
\* the additional environment does not define is sent as one batch with
\* exactly one series per datapoint, in the order of the datapoints; the id
\* of a series is the expanded prefix followed by the template with that
\* token replaced by the value the datapoint has for the label of that name,
\* and by the empty string when the datapoint has no such label.
C21_TokenResolvedPerDatapoint ==
    fn.phase = "expand_out"
    => \A i \in DOMAIN fn.in.collected :
          LET cm == fn.in.collected[i]
              t == fn.in.metrics[cm.ID].ID
          IN  (/\ cm.ID \in DOMAIN fn.in.metrics
               /\ \E n \in DOMAIN t :
                     IsTok(t[n]) /\ t[n].tok \notin DOMAIN fn.in.additionalEnv)
              => \E b \in DOMAIN fn.out.batches :
                    /\ DOMAIN fn.out.batches[b] = DOMAIN cm.Data
                    /\ \A j \in DOMAIN cm.Data :
                          /\ fn.out.batches[b][j].Data = << cm.Data[j] >>
                          /\ fn.out.batches[b][j].ID =
                                Render(Expand(fn.in.prefix, PrefixMapping(fn.in)))
                                \o C21_Id(t, fn.in.additionalEnv, cm.Data[j].Tags)
                    /\ \A q \in C19_SeriesOf(fn.out, i) : q[1] = b

\* C21 witness: bar, listed with the id bar_${k}, was collected with the
\* labels k=a and k=b and was sent as the series bar_a and bar_b; foo was
\* sent under its own id.
C21_Witness ==
    /\ fn.phase = "expand_out"
    /\ fn.in.prefix = << >>
    /\ DOMAIN fn.in.metrics = {"foo", "bar"}
    /\ fn.in.metrics["bar"].ID = << Lit("bar_"), Tok("k") >>
    /\ Len(fn.in.collected) = 2
    /\ fn.in.collected[1].ID = "bar"
    /\ fn.in.collected[1].Data =
          << Datapoint(1, LabelK("a")), Datapoint(2, LabelK("b")) >>
    /\ fn.in.collected[2].ID = "foo"
    /\ Len(fn.out.batches) = 2
    /\ Len(fn.out.batches[1]) = 2
    /\ fn.out.batches[1][1].ID = "bar_a"
    /\ fn.out.batches[1][2].ID = "bar_b"
    /\ Len(fn.out.batches[2]) = 1

\* C21 witness of the missing label: bar, listed with the id bar_${k}, was
\* collected with one datapoint that has label k and one that has not.
C21_WitnessMissing ==
    /\ fn.phase = "expand_out"
    /\ fn.in.prefix = << Lit("p_") >>
    /\ DOMAIN fn.in.metrics = {"foo", "bar"}
    /\ Len(fn.in.collected) = 1
    /\ fn.in.collected[1].ID = "bar"
    /\ Len(fn.out.batches[1]) = 2
    /\ fn.out.batches[1][1].ID = "p_bar_"
    /\ fn.out.batches[1][2].ID = "p_bar_a"

\* C22: for a metric whose id has no token, the id template of the default
\* split and the set of the ids of its series are the same whatever the order
\* of the datapoints and whatever the order in which the label keys are
\* iterated.
C22_OrderIndependent ==
    fn.phase = "order_out"
    => /\ fn.first.template = fn.second.template
       /\ fn.first.ids = fn.second.ids

\* C22 witness: the datapoints with the labels m=x, k=a and k=b were expanded
\* in this order with the keys iterated as k, m and in another order with
\* the keys iterated as m, k, and gave the same template and three ids.
C22_Witness ==
    /\ fn.phase = "order_out"
    /\ fn.in.labels = << LabelM("x"), LabelK("a"), LabelK("b") >>
    /\ fn.in.perm = << 3, 1, 2 >>
    /\ fn.in.enum1 = << "k", "m" >> /\ fn.in.enum2 = << "m", "k" >>
    /\ fn.in.prefix = << >>
    /\ fn.second.template = "bar{k=${k},m=${m}}"
    /\ fn.second.ids = {"bar{k=,m=x}", "bar{k=a,m=}", "bar{k=b,m=}"}

\* string s contains string t
C23_Contains(s, t) ==
    \E n \in 1..Len(s) :
       n + Len(t) - 1 <= Len(s) /\ SubSeq(s, n, n + Len(t) - 1) = t

\* C23: every series of the batches of a cycle has an id without ${, or it
\* holds exactly one datapoint and its id has a token ${key} for a key that
\* is not a label of that datapoint.
C23_SplitClosure ==
    fn.phase = "expand_out"
    => \A b \in DOMAIN fn.out.batches : \A j \in DOMAIN fn.out.batches[b] :
          LET e == fn.out.batches[b][j]
          IN  \/ ~C23_Contains(e.ID, "${")
              \/ /\ Len(e.Data) = 1
                 /\ \E key \in {"k", "m", "pod"} :
                       /\ C23_Contains(e.ID, "${" \o key \o "}")
                       /\ key \notin DOMAIN e.Data[1].Tags

\* the stronger property of the code: no series id has ${ at all
C23_NoTokenLeft ==
    fn.phase = "expand_out"
    => \A b \in DOMAIN fn.out.batches : \A j \in DOMAIN fn.out.batches[b] :
          ~C23_Contains(fn.out.batches[b][j].ID, "${")

\* C23 witness: bar, listed with the id bar_${k}, was collected with the
\* labels m=x on one datapoint and k=a on the other and a counter foo came
\* with it; the series of the datapoint without k has the id bar_, no
\* series id has ${.
C23_Witness ==
    /\ fn.phase = "expand_out"
    /\ fn.in.prefix = << >>
    /\ Len(fn.in.collected) = 2
    /\ fn.in.collected[1].ID = "foo" /\ fn.in.collected[1].Type = "counter"
    /\ fn.in.collected[2].ID = "bar"
    /\ "bar" \in DOMAIN fn.in.metrics
    /\ fn.in.metrics["bar"].ID = << Lit("bar_"), Tok("k") >>
    /\ Len(fn.out.batches) = 2
    /\ Len(fn.out.batches[1]) = 2
    /\ fn.out.batches[1][1].ID = "bar_"
    /\ fn.out.batches[1][1].Data = << Datapoint(1, LabelM("x")) >>
    /\ fn.out.batches[1][2].ID = "bar_a"
    /\ \A b \in DOMAIN fn.out.batches : \A j \in DOMAIN fn.out.batches[b] :
          ~C23_Contains(fn.out.batches[b][j].ID, "${")

\* C24: every series of the batches of a cycle has a non-empty id, whatever
\* the prefix, the id template and the labels of the datapoints.
C24_NoEmptySeriesId ==
    fn.phase = "expand_out"
    => \A b \in DOMAIN fn.out.batches : \A j \in DOMAIN fn.out.batches[b] :
          fn.out.batches[b][j].ID # ""

\* C25: a collected metric whose monitored metric is declared without an id
\* is sent under its name: the ids of its series are the expanded prefix
\* followed by the name, and by {k1=v1,...} with the labels of the datapoint
\* when a datapoint of the metric has a label.
C25_IdDefaultsToName ==
    fn.phase = "expand_out"
    => \A i \in DOMAIN fn.in.collected :
          LET cm == fn.in.collected[i]
              keys == UNION {DOMAIN cm.Data[j].Tags : j \in DOMAIN cm.Data}
              base == Render(Expand(fn.in.prefix, PrefixMapping(fn.in))) \o cm.ID
              S == C19_SeriesOf(fn.out, i)
          IN  (cm.ID \in DOMAIN fn.in.listed /\ fn.in.listed[cm.ID].ID = << >>)
              => /\ S # {}
                 /\ {fn.out.batches[p[1]][p[2]].ID : p \in S} =
                       IF keys = {} THEN {base}
                       ELSE {base \o "{" \o C20_Labels(keys, cm.Data[j].Tags)
                                  \o "}" : j \in DOMAIN cm.Data}

\* C25 witness: bar is declared without an id; it was collected with the
\* labels k=a and k=b under the prefix p_ and sent as p_bar{k=a} and
\* p_bar{k=b}.
C25_Witness ==
    /\ fn.phase = "expand_out"
    /\ fn.in.prefix = << Lit("p_") >>
    /\ DOMAIN fn.in.listed = {"bar"}
    /\ fn.in.listed["bar"].ID = << >>
    /\ Len(fn.in.collected) = 1
    /\ fn.in.collected[1].ID = "bar"
    /\ Len(fn.out.batches) = 2
    /\ Len(fn.out.batches[1]) = 2
    /\ fn.out.batches[1][1].ID = "p_bar{k=a}"
    /\ fn.out.batches[1][2].ID = "p_bar{k=b}"
    /\ DOMAIN fn.out.needed = {"p_bar{k=a}", "p_bar{k=b}"}

\* C26: the type of a definition is the declared type of the monitored metric
\* when it is not empty, else the type in the details CollectMetricDetails
\* returned for the metric's name when there is one and it is not empty, else
\* gauge; it is never empty.
C26_TypePrecedence ==
    fn.phase = "type_out"
    => LET mine == {m \in fn.in.details : m.Name = fn.in.mm.Name}
           detailed == IF fn.in.detailsErr THEN {}
                       ELSE {m.MetricType : m \in mine} \ {""}
       IN  /\ fn.def.Type # ""
           /\ fn.in.mm.Type # "" => fn.def.Type = fn.in.mm.Type
           /\ (fn.in.mm.Type = "" /\ detailed # {}) => fn.def.Type \in detailed
           /\ (fn.in.mm.Type = "" /\ detailed = {}) => fn.def.Type = "gauge"

\* C26 witness: bar declares no type and the details of bar have an empty
\* type while the details of foo say counter: the definition is a gauge.
C26_Witness ==
    /\ fn.phase = "type_out"
    /\ fn.in.mm.Type = ""
    /\ ~fn.in.detailsErr
    /\ [Name |-> "bar", MetricType |-> "", Description |-> "by adapter"]
          \in fn.in.details
    /\ [Name |-> "foo", MetricType |-> "counter", Description |-> ""]
          \in fn.in.details
    /\ fn.def.Type = "gauge"

\* C26 witness of the other cases: a declared gauge although the details say
\* counter, and a counter from the details for a metric declaring no type.
C26_WitnessDeclared ==
    /\ fn.phase = "type_out"
    /\ \E m \in fn.in.details : m.Name = "bar" /\ m.MetricType = "counter"
    /\ ~fn.in.detailsErr
    /\ \/ fn.in.mm.Type = "gauge" /\ fn.def.Type = "gauge"
       \/ fn.in.mm.Type = "" /\ fn.def.Type = "counter"

\* C27: a StartCollecting call for a collector whose endpoint is disabled
\* leaves no scheduler collecting for its id: it creates no ticker, the
\* Tickers table has no entry for the id and no ticker of the id is live
\* after it, and the status entry of the id says disabled.
C27_DisabledStartStopsCollection ==
    [][\A t \in Callers : \A c \in AllCollectors :
          StartCollecting_Disabled(t, c)
          => /\ Created' = Created
             /\ endpoints'[c.id] = "DISABLED"
             /\ Tickers'[c.id] = NoTicker
             /\ \A k \in Created : ticker'[k].id = c.id => ticker'[k].stopped]_vars

\* the ids of the definitions worker k has pushed so far
C28_DefsPushed(k) == UNION {defsSent[k][n].ids : n \in DOMAIN defsSent[k]}

\* C28: when a cycle of a worker has made all its pushes, and until its next
\* cycle starts, every id the worker has pushed datapoints for is an id it
\* has pushed a definition for, in that cycle or an earlier one.
C28_DefinitionWithFirstData ==
    \A k \in TickerIds :
       wk[k].pc \in {"finish", "wait"} => dataIds[k] \subseteq C28_DefsPushed(k)

\* C28 witness: a worker ended two cycles; it pushed datapoints of foo, bar_a
\* and bar_b, the definition of foo in the first cycle and the definitions of
\* bar_a and bar_b alone in the second.
C28_Witness ==
    \E k \in TickerIds :
       /\ wk[k].pc = "wait" /\ wk[k].cycles = 2
       /\ dataIds[k] = {"foo", "bar_a", "bar_b"}
       /\ Len(defsSent[k]) = 2
       /\ defsSent[k][1].ids = {"foo"}
       /\ defsSent[k][2].ids = {"bar_a", "bar_b"}

\* C29: while a worker is in a cycle and a tick is held in ticker.C, a
\* further tick is not added to the channel; ticker.C gets a tick only from
\* the ticker and loses it only to the worker; and the receive that starts a
\* cycle takes the held tick and leaves ticker.C empty, so that after a cycle
\* that outlasted the interval one cycle starts at once and the one after it
\* needs a tick delivered later.
C29_OneTickHeld ==
    /\ [](\A k \in TickerIds :
            (InCycle(k) /\ ticker[k].pending) => ~ENABLED Tick(k))
    /\ [][\A k \in TickerIds :
            /\ (wk[k].pc = "wait" /\ wk'[k].pc = "scrape")
               => (ticker[k].pending /\ ~ticker'[k].pending)
            /\ (ticker[k].pending /\ ~ticker'[k].pending)
               => (wk[k].pc = "wait" /\ wk'[k].pc = "scrape")
            /\ (~ticker[k].pending /\ ticker'[k].pending)
               => (ticker[k].created /\ ~ticker[k].stopped /\ wk'[k] = wk[k])]_vars

\* C29 witness: the first cycle of a worker is at its end with a tick held in
\* ticker.C of a running ticker, and the ticker can add no other.
C29_Witness ==
    \E k \in Created :
        /\ wk[k].pc = "finish" /\ wk[k].cycles = 1
        /\ ~ticker[k].stopped /\ ticker[k].pending
        /\ ~ENABLED Tick(k)

\* C29 witness of the cycle that follows at once: the second cycle of a
\* worker has started and ticker.C is empty.
C29_WitnessNext ==
    \E k \in Created :
        /\ wk[k].pc = "scrape" /\ wk[k].cycles = 2
        /\ ~ticker[k].stopped /\ ~ticker[k].pending

C30_WitnessNoCall ==
    \E k \in Created :
        /\ wk[k].pc = "finish" /\ wk[k].cycles = 2
        /\ dataSent[k] >= 2
        /\ Len(defsSent[k]) = 1
        /\ wk[k].needed = {}

\* the value the definition must carry for a fixed tag key whose fixed value
\* is v: the global value when the global tags define the key, else v when v
\* is not empty, else the custom metric tag, else the endpoint tag, else none
C31_Expected(in, key, v) ==
    IF key \in DOMAIN in.globalTags THEN << Render(in.globalTags[key]) >>
    ELSE IF v # "" THEN << v >>
    ELSE IF key \in DOMAIN in.metricTags THEN << Render(in.metricTags[key]) >>
    ELSE IF key \in DOMAIN in.endpointTags THEN << Render(in.endpointTags[key]) >>
    ELSE << >>

\* the value a tag map has for a key, as a list of one value or none
C31_Carried(tgs, key) == IF key \in DOMAIN tgs THEN << tgs[key] >> ELSE << >>

\* C31: the fixed tag description has the configured description, else the
\* one of the adapter's details, and is set only when that is not empty; the
\* fixed tag units has the units symbol and is set only when that is not
\* empty. A global tag of the same key overrides a fixed tag, and a fixed tag
\* overrides the endpoint tag and the custom metric tag of the same key.
C31_FixedTagsAtMetricLayer ==
    fn.phase = "fixed_out"
    => LET resolved == IF fn.in.configured # "" THEN fn.in.configured
                       ELSE fn.in.detailed
       IN  /\ C31_Carried(fn.tags, "description")
                 = C31_Expected(fn.in, "description", resolved)
           /\ C31_Carried(fn.tags, "units")
                 = C31_Expected(fn.in, "units", fn.in.units)

\* C31 witness: no description is configured and the adapter gives one; the
\* endpoint and the custom metric tags define description and units, the
\* global tags define units only: description carries the adapter's
\* description and units the global value although a units symbol is set.
C31_Witness ==
    /\ fn.phase = "fixed_out"
    /\ fn.in.configured = "" /\ fn.in.detailed = "by adapter"
    /\ fn.in.units = "ms"
    /\ {"description", "units"} \subseteq DOMAIN fn.in.endpointTags
    /\ {"description", "units"} \subseteq DOMAIN fn.in.metricTags
    /\ DOMAIN fn.in.globalTags = {"units"}
    /\ fn.tags["description"] = "by adapter"
    /\ fn.tags["units"] = "global"

\* C31 witness of a fixed tag that is not set: no description at all and no
\* layer with that key, the definition has no description tag.
C31_WitnessAbsent ==
    /\ fn.phase = "fixed_out"
    /\ fn.in.configured = "" /\ fn.in.detailed = ""
    /\ "description" \notin DOMAIN fn.tags
    /\ "units" \in DOMAIN fn.tags /\ fn.tags["units"] = "ms"

\* the id StartCollectingEndpoints gives the endpoint at position n of the list
C32_Id(n) == "X|X|" \o fn.list[n].Type \o "|" \o fn.list[n].URL

\* StartCollectingEndpoints is through its list
C32_Done ==
    fn.phase = "endpoints" /\ calls = Len(fn.list) /\ call["c1"].pc = "idle"

\* C32: StartCollectingEndpoints handles the endpoints of the list one by
\* one under the id X|X|<type>|<url>. Every ticker was created for an
\* endpoint of the list that has a collector and is enabled; an id of which
\* no endpoint has a collector has no ticker and no table entry, and its
\* status entry is the failure message once the loop has passed it; when the
\* loop is through, every endpoint that has a collector and is enabled has a
\* running ticker in the table under its id, whatever failed before or after
\* it; a nil list creates no ticker and sets no status entry.
C32_StaticEndpointsIndependent ==
    fn.phase = "endpoints"
    => /\ \A k \in Created : \E n \in 1..calls :
             /\ fn.list[n].creatable /\ fn.list[n].enabled
             /\ ticker[k].id = C32_Id(n)
       /\ \A n \in 1..calls :
             (\A m \in DOMAIN fn.list : C32_Id(m) = C32_Id(n) => ~fn.list[m].creatable)
             => /\ Tickers[C32_Id(n)] = NoTicker
                /\ endpoints[C32_Id(n)] = "WILLNOTSTART"
                /\ \A k \in Created : ticker[k].id # C32_Id(n)
       /\ C32_Done
          => \A n \in DOMAIN fn.list :
                (fn.list[n].creatable /\ fn.list[n].enabled)
                => /\ Tickers[C32_Id(n)] \in Created
                   /\ ticker[Tickers[C32_Id(n)]].id = C32_Id(n)
                   /\ ~ticker[Tickers[C32_Id(n)]].stopped
       /\ fn.list = << >>
          => (Created = {} /\ \A i \in DOMAIN endpoints : endpoints[i] = "")

\* C32 witness: the list has a prometheus endpoint that gets no collector
\* between two jolokia endpoints that do; the loop is through, the second
\* jolokia ticker runs and the prometheus id has the failure message.
C32_Witness ==
    /\ C32_Done
    /\ Len(fn.list) = 3
    /\ fn.list[1].Type = "jolokia" /\ fn.list[1].creatable /\ fn.list[1].enabled
    /\ fn.list[2].Type = "prometheus" /\ ~fn.list[2].creatable
    /\ fn.list[3].Type = "jolokia" /\ fn.list[3].creatable /\ fn.list[3].enabled
    /\ endpoints["X|X|prometheus|http://h/m"] = "WILLNOTSTART"
    /\ Tickers["X|X|prometheus|http://h/m"] = NoTicker
    /\ Tickers["X|X|jolokia|http://h/m"] = 2
    /\ ticker[1].stopped /\ ~ticker[2].stopped

\* C32 witness of the nil list: nothing was started.
C32_WitnessNil ==
    /\ fn.phase = "endpoints" /\ fn.list = << >>
    /\ Created = {} /\ calls = 0

\* the number of datapoints in a list of series
RECURSIVE C33_Datapoints(_)
C33_Datapoints(series) ==
    IF series = << >> THEN 0
    ELSE Len(Head(series).Data) + C33_Datapoints(Tail(series))

\* the number of datapoints in a list of batches
RECURSIVE C33_Pushed(_)
C33_Pushed(batches) ==
    IF batches = << >> THEN 0
    ELSE C33_Datapoints(Head(batches)) + C33_Pushed(Tail(batches))

\* C33: the number a successful cycle adds to the datapoints-collected
\* counter and reports in its OK message is the number of datapoints in the
\* batches it pushed to the datapoint channel.
C33_CounterCountsDatapoints ==
    fn.phase = "expand_out" => fn.out.total = C33_Pushed(fn.out.batches)

\* what the code counts: the series in the batches it pushed
C33_CounterCountsSeries ==
    fn.phase = "expand_out"
    => fn.out.total =
          Cardinality({p \in UNION {{<< b, j >> : j \in DOMAIN fn.out.batches[b]} :
                                       b \in DOMAIN fn.out.batches} : TRUE})

\* C34: the interval before the clamp is the endpoint's interval when that
\* is not empty and parses, else the configured default when that parses,
\* else five minutes; the interval of the collector is the configured
\* minimum when that parses and the interval before the clamp is smaller,
\* and the interval before the clamp otherwise.
C34_IntervalChoice ==
    fn.phase = "interval_out"
    => LET own == ParseDuration(fn.interval)
           dflt == ParseDuration(cfg.default)
           mini == ParseDuration(cfg.minimum)
           chosen == IF fn.interval # "" /\ own.ok THEN own.d
                     ELSE IF dflt.ok THEN dflt.d
                     ELSE 300
       IN  /\ fn.chosen = chosen
           /\ (mini.ok /\ chosen < mini.d) => fn.collectionInterval = mini.d
           /\ (mini.ok /\ chosen >= mini.d) => fn.collectionInterval = chosen
           /\ ~mini.ok => fn.collectionInterval = chosen

\* C34 witness: the endpoint's interval does not parse, the default is two
\* minutes and the minimum does not parse: the interval is two minutes.
C34_Witness ==
    /\ fn.phase = "interval_out"
    /\ fn.interval = "bogus" /\ cfg.default = "2m" /\ cfg.minimum = "bogus"
    /\ fn.chosen = 120 /\ fn.collectionInterval = 120

\* C34 witness of the last resort: neither the endpoint's interval nor the
\* default parses, the interval is five minutes, above the minimum.
C34_WitnessFiveMinutes ==
    /\ fn.phase = "interval_out"
    /\ fn.interval = "" /\ cfg.default = "bogus" /\ cfg.minimum = "30s"
    /\ fn.chosen = 300 /\ fn.collectionInterval = 300

\* C35: two consecutive cycles of a scheduler start at least one interval of
\* its ticker apart.
C35_CyclesAnIntervalApart ==
    (fn.phase = "timed" /\ fn.before # Never)
    => fn.started - fn.before >= TickerInterval

\* the ticks themselves are an interval apart: the ticker sends its ticks at
\* the multiples of the interval
C35_TicksAnIntervalApart ==
    fn.phase = "timed"
    => /\ fn.next >= fn.now /\ fn.next <= fn.now + TickerInterval
       /\ fn.next % TickerInterval = 0

\* C36: once StopCollecting(id) has returned, with the ticker of id stopped
\* and taken out of the table and the status entry of id removed, the status
\* registry has no entry for id for as long as no StartCollecting call for id
\* is made: no step of a worker, a ticker or the sink sets one.
C36_NoStatusAfterStop ==
    [][\A i \in Ids :
          (/\ AllIdle /\ calls' = calls /\ call' = call
           /\ Tickers[i] = NoTicker
           /\ \E k \in Created : ticker[k].id = i
           /\ endpoints[i] = "")
          => endpoints'[i] = ""]_vars

\* how far a manager call is from its return
C37_StepsLeft(pc) ==
    CASE pc = "stop_status"    -> 4
      [] pc = "start_status"   -> 3
      [] pc = "start_lock"     -> 2
      [] pc = "start_create"   -> 1
      [] pc = "stopall_status" -> 1
      [] OTHER                 -> 0

\* a worker that cannot go on before the sink takes a batch
C37_Blocked(k) ==
    \/ wk[k].pc = "send" /\ Len(metricsChan) = ChanCap
    \/ wk[k].pc = "senddefs" /\ Len(metricDefsChan) = ChanCap

\* C37: every StartCollecting, StopCollecting and StopCollectingAll call
\* returns whatever the workers and the channels do: the call that holds
\* TickersLock can always take its next step, which releases the lock; a call
\* that waits for the lock does not hold it, and it can take the lock when it
\* is free or else the holder can go on; a call outside the lock can always go
\* on; and every step of a call brings it nearer to its return.
C37_CallsReturn ==
    /\ [](\A t \in Callers :
            /\ call[t].pc \in {"stop_status", "stopall_status", "start_create"}
               => (TickersLock = t /\ ENABLED CallStep(t))
            /\ call[t].pc = "start_status"
               => (TickersLock # t /\ ENABLED StartCollecting_Status(t))
            /\ call[t].pc = "start_lock"
               => /\ TickersLock # t
                  /\ TickersLock = NoCaller => ENABLED StartCollecting_Lock(t)
                  /\ TickersLock # NoCaller => ENABLED CallStep(TickersLock)
            /\ call[t].pc = "idle" => TickersLock # t)
    /\ [][\A t \in Callers :
             (call'[t] # call[t] /\ call[t].pc # "idle")
             => C37_StepsLeft(call'[t].pc) < C37_StepsLeft(call[t].pc)]_vars

\* C37 witness: one call holds the lock and another waits for it while every
\* worker is blocked sending on a full channel.
C37_Witness ==
    /\ Created # {}
    /\ \A k \in Created : C37_Blocked(k)
    /\ \E t, u \in Callers :
          /\ TickersLock = t
          /\ call[u].pc = "start_lock"

\* C37 witness: two workers are blocked sending on the full datapoint channel
\* while a call holds the lock.
C37_WitnessTwoBlocked ==
    /\ Cardinality(Created) = 2
    /\ \A k \in Created : C37_Blocked(k)
    /\ TickersLock # NoCaller

\* the ids of the series in the batches a cycle sends
C38_SeriesIds(batches) ==
    UNION {{batches[b][j].ID : j \in DOMAIN batches[b]} : b \in DOMAIN batches}

\* C38: every id a cycle needs a definition for, which is every id of the
\* definition batch of that cycle, is the id of a series in one of the batches
\* the cycle sends on the datapoint channel.
C38_DefinitionsHaveData ==
    fn.phase = "expand_out"
    => DOMAIN fn.out.needed \subseteq C38_SeriesIds(fn.out.batches)

====
